---- MODULE Spec2Model ----
(***************************************************************************)
(* A model of rsa-oaep-encryption: PEM -> DER -> ASN.1 -> (n, e), the      *)
(* RSAES-OAEP encoder, the jsbn big integer with its Montgomery modPow and *)
(* the I2OSP rendering of the ciphertext.                                  *)
(*                                                                         *)
(* Strings of the source are sequences of character codes; a JavaScript    *)
(* array is a sequence whose element i is at index i + 1.                  *)
(***************************************************************************)
EXTENDS Integers, Sequences, FiniteSets, TLC

(***************************************************************************)
(* Evaluation.  TLC evaluates an operator's arguments and LET definitions  *)
(* where they are first used and keeps a shallow stack, so the loops of    *)
(* the source are run by For and While, which split the iterations in two  *)
(* halves and evaluate the state between them.                             *)
(***************************************************************************)
\* TRUE, for any v: a guard Strict(v) evaluates v ahead of its use
Strict(v) == Len(<<v>>) = 1

RECURSIVE Call(_, _)

RECURSIVE For(_, _, _, _)
\* for (i = lo; i <= hi; ++i) s = body(s, i)
For(body(_, _), s, lo, hi) ==
    CASE lo > hi -> s
      [] lo = hi -> body(s, lo)
      [] lo < hi ->
            LET s1 == For(body, s, lo, (lo + hi) \div 2)
            IN CASE Strict(s1) -> For(body, s1, (lo + hi) \div 2 + 1, hi)

RECURSIVE While(_, _, _, _)
\* while (cond(s)) s = body(s), for n iterations at most
While(cond(_), body(_), s, n) ==
    CASE n = 0 \/ ~cond(s) -> s
      [] n = 1 /\ cond(s) -> body(s)
      [] n > 1 /\ cond(s) ->
            LET s1 == While(cond, body, s, n \div 2)
            IN CASE Strict(s1) -> While(cond, body, s1, n - n \div 2)

\* the sequence f[1], ..., f[n] of a function f on 1..n, its elements evaluated
ArrayOf(f, n) == SubSeq(f, 1, n)

\* the concatenation of the sequences p[1], ..., p[Len(p)]
Flatten(p) ==
    LET body(s, i) == s \o p[i]
    IN For(body, <<>>, 1, Len(p))

Max(S) == CHOOSE x \in S : \A y \in S : y <= x
Min(S) == CHOOSE x \in S : \A y \in S : x <= y

(***************************************************************************)
(* JavaScript values.  NaN stands for both `undefined` (a read outside an  *)
(* array or a string) and NaN: every use in the modelled code converts the *)
(* one into the other or both into 0 (ToInt32).  It is an integer no       *)
(* computation of the model yields.                                        *)
(***************************************************************************)
NaN == 0 - 2147483647

\* `undefined` where the source tells it from NaN (typeof count)
Undefined == 0 - 2147483646

\* ToInt32 of a value that is an int32 already, undefined or NaN
I32(v) == IF v = NaN THEN 0 ELSE v

\* a[i] of a JavaScript array or s.charCodeAt(i) of a string
Rd(a, i) == IF i >= 0 /\ i < Len(a) THEN a[i + 1] ELSE NaN

\* a[i] = v of a JavaScript array: the array grows, the gap holds undefined;
\* a negative i names a property, no element
Wr(a, i, v) ==
    IF i < 0 THEN a
    ELSE IF i < Len(a) THEN [a EXCEPT ![i + 1] = v]
    ELSE a \o [k \in 1..(i - Len(a)) |-> NaN] \o <<v>>

Pow2(k) == 2 ^ k

\* x >> k and x << k; the shift count is taken modulo 32 as JavaScript does
Shr(x, k) ==
    IF k % 32 = 31 THEN (IF I32(x) < 0 THEN 0 - 1 ELSE 0)
    ELSE I32(x) \div Pow2(k % 32)
Shl(x, k) == I32(x) * Pow2(k % 32)

\* x & (2^k - 1)
Low(x, k) == I32(x) % Pow2(k)

\* a + b, a - b and a * b of JavaScript numbers
Add(a, b) == IF a = NaN \/ b = NaN THEN NaN ELSE a + b
Sub(a, b) == IF a = NaN \/ b = NaN THEN NaN ELSE a - b
Mul(a, b) == IF a = NaN \/ b = NaN THEN NaN ELSE a * b

\* bit k of x >= 0
BitAt(x, k) == (x \div Pow2(k)) % 2

\* a bitwise operation, op[<<bit, bit>>] per bit, on two 4-bit values
BitOp4(op, a, b) ==
    op[<<BitAt(a, 0), BitAt(b, 0)>>] + 2 * op[<<BitAt(a, 1), BitAt(b, 1)>>]
    + 4 * op[<<BitAt(a, 2), BitAt(b, 2)>>] + 8 * op[<<BitAt(a, 3), BitAt(b, 3)>>]

\* the 4-bit group k of x >= 0
Nibble(x, k) == (x \div Pow2(4 * k)) % 16

XorTable == [p \in {0, 1} \X {0, 1} |-> IF p[1] # p[2] THEN 1 ELSE 0]
OrTable == [p \in {0, 1} \X {0, 1} |-> IF p[1] + p[2] > 0 THEN 1 ELSE 0]

\* the two operations on all pairs of 4-bit values
Xor4 == [p \in (0..15) \X (0..15) |-> BitOp4(XorTable, p[1], p[2])]
Or4 == [p \in (0..15) \X (0..15) |-> BitOp4(OrTable, p[1], p[2])]

RECURSIVE BitOp(_, _, _)
\* a bitwise operation that maps two 0 bits to 0, on two int32 values >= 0,
\* four bits at a time from the low end
BitOp(op4, a, b) ==
    IF a = 0 /\ b = 0 THEN 0
    ELSE op4[<<a % 16, b % 16>>] + 16 * BitOp(op4, a \div 16, b \div 16)

\* a ^ b and a | b
Xor(a, b) == BitOp(Xor4, I32(a), I32(b))
Or(a, b) == BitOp(Or4, I32(a), I32(b))

(***************************************************************************)
(* jsbn.ts: BigInteger.  A BigInteger is [t, d]: d is its `data` array and *)
(* t its limb count.  The sign field s is 0 in every BigInteger the        *)
(* library builds (fromInt and fromString set 0, the shifts copy it), so   *)
(* `s & DM` is 0 throughout.  An operation that writes into a BigInteger r *)
(* takes r's value before the call: limbs the operation does not write     *)
(* stay in r.d.                                                            *)
(***************************************************************************)
dbits == 28
DB == dbits
DV == Pow2(dbits)
DM == DV - 1
BI_FP == 52
F1 == BI_FP - dbits
F2 == 2 * dbits - BI_FP

nbi == [t |-> 0, d |-> <<>>]

\* fromInt, through nbv
nbv(i) == [t |-> 1, d |-> <<i>>]

BigIntegerONE == nbv(1)

nbits(x) ==
    LET t1 == Shr(x, 16)
        x1 == IF t1 # 0 THEN t1 ELSE I32(x)
        r1 == IF t1 # 0 THEN 1 + 16 ELSE 1
        t2 == Shr(x1, 2)
        x2 == IF t2 # 0 THEN t2 ELSE x1
        r2 == IF t2 # 0 THEN r1 + 2 ELSE r1
        t3 == Shr(x2, 1)
    IN IF t3 # 0 THEN r2 + 1 ELSE r2

clamp(b) ==
    LET keep == {i \in 1..b.t : Rd(b.d, i - 1) # 0}
    IN [b EXCEPT !.t = IF keep = {} THEN 0 ELSE Max(keep)]

bitLength(b) == DB * (b.t - 1) + Call("nbits", <<Rd(b.d, b.t - 1)>>)

\* d[i] = 0 for i = n - 1 down to 0
ZeroLow(d, n) ==
    LET body(s, i) == Wr(s, i, 0)
    IN For(body, d, 0, n - 1)

\* w[j..j+n-1] += this[i..i+n-1] * x + c, on the data arrays this and w;
\* the result is the carry c and w
am(this, i0, x, w0, j0, c0, n) ==
    LET xl == Low(x, 14)
        xh == Shr(x, 14)
        body(s, k) ==
            LET l0 == Low(Rd(this, i0 + k), 14)
                h == Shr(Rd(this, i0 + k), 14)
                m == xh * l0 + h * xl
                l == Add(Add(xl * l0 + Shl(Low(m, 14), 14), Rd(s.w, j0 + k)), s.c)
            IN [w |-> Wr(s.w, j0 + k, Low(l, 28)),
                c |-> Shr(l, 28) + Shr(m, 14) + xh * h]
    IN CASE Strict(<<this, x, w0, c0>>) ->
        For(body, [w |-> w0, c |-> c0], 0, n - 1)

dlShiftTo(this, n, r) ==
    LET up(d, k) == Wr(d, this.t - 1 - k + n, Rd(this.d, this.t - 1 - k))
    IN CASE Strict(<<this, r>>) ->
        [t |-> this.t + n, d |-> ZeroLow(For(up, r.d, 0, this.t - 1), n)]

drShiftTo(this, n, r) ==
    LET down(d, i) == Wr(d, i - n, Rd(this.d, i))
    IN CASE Strict(<<this, r>>) ->
        [t |-> IF this.t - n > 0 THEN this.t - n ELSE 0,
            d |-> For(down, r.d, n, this.t - 1)]

lShiftTo(this, n, r) ==
    LET bs == n % DB
        cbs == DB - bs
        ds == n \div DB
        body(s, k) ==
            LET i == this.t - 1 - k
            IN [d |-> Wr(s.d, i + ds + 1, Or(Shr(Rd(this.d, i), cbs), s.c)),
                c |-> Shl(Low(Rd(this.d, i), cbs), bs)]
        out == For(body, [d |-> r.d, c |-> 0], 0, this.t - 1)
    IN CASE Strict(<<this, r>>) ->
        Call("clamp", <<[t |-> this.t + ds + 1, d |-> Wr(out.d, ds, out.c)]>>)

rShiftTo(this, n, r) ==
    LET ds == n \div DB
        bs == n % DB
        cbs == DB - bs
        body(d, i) ==
            LET d1 == Wr(d, i - ds - 1,
                         Or(Rd(d, i - ds - 1), Shl(Low(Rd(this.d, i), bs), cbs)))
            IN Wr(d1, i - ds, Shr(Rd(this.d, i), bs))
        d0 == For(body, Wr(r.d, 0, Shr(Rd(this.d, ds), bs)), ds + 1, this.t - 1)
        d2 == IF bs > 0
              THEN Wr(d0, this.t - ds - 1, I32(Rd(d0, this.t - ds - 1)))
              ELSE d0
    IN CASE Strict(<<this, r>>) ->
        Call("clamp", <<[t |-> this.t - ds, d |-> d2]>>)

subTo(this, a, r) ==
    LET m == IF a.t < this.t THEN a.t ELSE this.t
        low(s, i) ==
            LET c == Add(s.c, Sub(Rd(this.d, i), Rd(a.d, i)))
            IN [d |-> Wr(s.d, i, Low(c, 28)), c |-> Shr(c, DB)]
        high(s, i) ==
            LET c == Add(s.c, Rd(this.d, i))
            IN [d |-> Wr(s.d, i, Low(c, 28)), c |-> Shr(c, DB)]
        lo == For(low, [d |-> r.d, c |-> 0], 0, m - 1)
        hi == For(high, lo, m, this.t - 1)
    IN CASE Strict(<<this, a, r>>) ->
        Call("clamp", <<[t |-> IF this.t > m THEN this.t ELSE m, d |-> hi.d]>>)

multiplyTo(this, a, r) ==
    LET body(d, i) ==
            LET cw == Call("am", <<this.d, 0, Rd(a.d, i), d, i, 0, this.t>>)
            IN Wr(cw.w, i + this.t, cw.c)
    IN CASE Strict(<<this, a, r>>) ->
        Call("clamp", <<[t |-> this.t + a.t,
                  d |-> For(body, ZeroLow(r.d, this.t), 0, a.t - 1)]>>)

squareTo(this, r) ==
    LET x == this
        rt == 2 * x.t
        body(d, i) ==
            LET a1 == Call("am", <<x.d, i, Rd(x.d, i), d, 2 * i, 0, 1>>)
                a2 == Call("am", <<x.d, i + 1, Mul(2, Rd(x.d, i)), a1.w, 2 * i + 1, a1.c,
                         x.t - i - 1>>)
                sum == Add(Rd(d, i + x.t), a2.c)
            IN IF sum # NaN /\ sum >= DV
               THEN Wr(Wr(a2.w, i + x.t, sum - DV), i + x.t + 1, 1)
               ELSE Wr(a2.w, i + x.t, sum)
        d1 == For(body, ZeroLow(r.d, rt), 0, x.t - 2)
        i1 == IF x.t - 1 > 0 THEN x.t - 1 ELSE 0
        last == Call("am", <<x.d, i1, Rd(x.d, i1), d1, 2 * i1, 0, 1>>)
        d2 == IF rt > 0 THEN Wr(last.w, rt - 1, Add(Rd(d1, rt - 1), last.c))
              ELSE d1
    IN CASE Strict(<<this, r>>) /\ Strict(d1) /\ Strict(d2) ->
        Call("clamp", <<[t |-> rt, d |-> d2]>>)

\* Math.floor(ri * d1 + (ri1 + e) * d2) of divRemTo, where d1 = FV / yt,
\* d2 = 2^F1 / yt, e = 2^F2 and yt = y0 * 2^F1 + yl: the exact quotient
\* floor((ri * 2^52 + (ri1 + 16) * 2^24) / yt) that the double arithmetic
\* approximates, by binary long division; the remainder and the divisor are
\* pairs of 26-bit halves
QuotientDigit(ri, ri1, y0, yl) ==
    LET lo == (ri1 + Pow2(F2)) % DV
        hi == ri + (ri1 + Pow2(F2)) \div DV
        dh == y0 \div 4
        dl == (y0 % 4) * Pow2(F1) + yl
        bit(k) == IF k < 31 THEN BitAt(hi, 30 - k)
                  ELSE IF k < 31 + dbits THEN BitAt(lo, 30 + dbits - k)
                  ELSE 0
        body(s, k) ==
            LET l2 == 2 * s.l + bit(k)
                nl == l2 % Pow2(26)
                nh == 2 * s.h + l2 \div Pow2(26)
                bw == IF nl < dl THEN 1 ELSE 0
            IN IF nh > dh \/ (nh = dh /\ nl >= dl)
               THEN [h |-> nh - dh - bw, l |-> nl - dl + bw * Pow2(26),
                     q |-> 2 * s.q + 1]
               ELSE [h |-> nh, l |-> nl, q |-> 2 * s.q]
    IN For(body, [h |-> 0, l |-> 0, q |-> 0], 0, 30 + dbits + F1).q

divRemTo(this, m, r0) ==
    LET nsh == DB - Call("nbits", <<Rd(m.d, m.t - 1)>>)
        y1 == Call("lShiftTo", <<m, nsh, nbi>>)
        r1 == Call("lShiftTo", <<this, nsh, r0>>)
        ys == y1.t
        y0 == Rd(y1.d, ys - 1)
        yl == Shr(Rd(y1.d, ys - 2), F2)
        j0 == r1.t - ys
        t == Call("dlShiftTo", <<BigIntegerONE, ys, Call("dlShiftTo", <<y1, j0, nbi>>)>>)
        y == Call("subTo", <<t, y1, y1>>)
        body(d, k) ==
            LET j == j0 - 1 - k
                i == j + ys
                qd == Call("QuotientDigit", <<Rd(d, i), Rd(d, i - 1), y0, yl>>)
                a == Call("am", <<y.d, 0, qd, d, j, 0, ys>>)
            IN CASE Strict(qd) /\ Strict(a) -> Wr(a.w, i, Add(Rd(d, i), a.c))
        r2 == Call("clamp", <<[t |-> ys, d |-> For(body, r1.d, 0, j0 - 1)]>>)
    IN CASE Strict(<<this, m, r0>>) /\ Strict(<<y1, r1>>) /\ Strict(y) /\ Strict(r2) ->
        IF nsh > 0 THEN Call("rShiftTo", <<r2, nsh, r2>>) ELSE r2

\* x * y % DV of two non-negative factors below 2^28 and 2^16, kept in 31 bits
MulModDV(x, y) ==
    (((x \div Pow2(14)) * y % Pow2(14)) * Pow2(14) + (x % Pow2(14)) * y) % DV

invDigit(this) ==
    LET x == I32(Rd(this.d, 0))
        ya == x % 4
        yb == (ya * (2 - (x % 16) * ya)) % 16
        yc == (yb * (2 - (x % 256) * yb)) % 256
        yd == (yc * (2 - (((x % 65536) * yc) % 65536))) % 65536
        u == 2 - MulModDV(x, yd)
        ye == IF u >= 0 THEN (yd * u) % DV ELSE 0 - MulModDV(0 - u, yd)
    IN 0 - ye

copyTo(this, r) ==
    LET body(d, i) == Wr(d, i, Rd(this.d, i))
    IN CASE Strict(<<this, r>>) ->
        [t |-> this.t, d |-> For(body, r.d, 0, this.t - 1)]

\* BI_RM.charAt(n): the character code of digit n
int2char(n) == IF n < 10 THEN 48 + n ELSE 87 + n

\* BI_RC[s.charCodeAt(i)]
intAt(s, i) ==
    LET c == Rd(s, i)
    IN IF c >= 48 /\ c <= 57 THEN c - 48
       ELSE IF c >= 97 /\ c <= 122 THEN c - 87
       ELSE NaN

fromString(s) ==
    LET body(b, k) ==
            LET x == intAt(s, Len(s) - 1 - k)
                sh == (4 * k) % DB
            IN IF sh = 0 THEN [t |-> b.t + 1, d |-> Wr(b.d, b.t, x)]
               ELSE [t |-> b.t,
                     d |-> Wr(b.d, b.t - 1, Or(Rd(b.d, b.t - 1), Shl(x, sh)))]
    IN Call("clamp", <<For(body, nbi, 0, Len(s) - 1)>>)

\* the loop takes DB / 4 digits of each limb, the top limb first
toString(this) ==
    LET body(s, k) ==
            LET d == Shr(Rd(this.d, this.t - 1 - k \div 7), DB - 4 - 4 * (k % 7)) % 16
            IN IF s.m \/ d > 0 THEN [m |-> TRUE, r |-> Append(s.r, int2char(d))]
               ELSE s
    IN CASE Strict(this) ->
        For(body, [m |-> FALSE, r |-> <<>>], 0, 7 * this.t - 1).r

\* new Montgomery(m)
Montgomery(m) ==
    LET mp == Call("invDigit", <<m>>)
    IN [m |-> m, mp |-> mp, mpl |-> mp % Pow2(15), mph |-> mp \div Pow2(15),
        um |-> Pow2(DB - 15) - 1, mt2 |-> 2 * m.t]

reduce(z, x0) ==
    LET x1 == [t |-> IF x0.t <= z.mt2 THEN z.mt2 + 1 ELSE x0.t,
               d |-> LET pad(d, i) == Wr(d, i, 0) IN For(pad, x0.d, x0.t, z.mt2)]
        body(d, i) ==
            LET j == Low(Rd(d, i), 15)
                u0 == (j * z.mpl
                       + Shl((j * z.mph + Shr(Rd(d, i), 15) * z.mpl) % (z.um + 1),
                             15)) % DV
                a == Call("am", <<z.m.d, 0, u0, d, i, 0, z.m.t>>)
            IN Wr(a.w, i + z.m.t, Add(Rd(d, i + z.m.t), a.c))
        x2 == Call("clamp", <<[t |-> x1.t, d |-> For(body, x1.d, 0, z.m.t - 1)]>>)
    IN CASE Strict(<<z, x0>>) /\ Strict(x1) /\ Strict(x2) ->
        Call("drShiftTo", <<x2, z.m.t, x2>>)

convert(z, x) ==
    LET r == Call("dlShiftTo", <<x, z.m.t, nbi>>)
    IN CASE Strict(r) -> Call("divRemTo", <<r, z.m, r>>)

revert(z, x) == Call("reduce", <<z, Call("copyTo", <<x, nbi>>)>>)

sqrTo(z, x, r) ==
    LET sq == Call("squareTo", <<x, r>>)
    IN CASE Strict(sq) -> Call("reduce", <<z, sq>>)

mulTo(z, x, y, r) ==
    LET pr == Call("multiplyTo", <<x, y, r>>)
    IN CASE Strict(pr) -> Call("reduce", <<z, pr>>)

\* x & (1 << i) # 0 for a limb x >= 0: the shift count is taken modulo 32 and
\* 1 << 31 is the sign bit, which no limb has
TestBit(x, i) == IF i % 32 = 31 THEN FALSE ELSE BitAt(I32(x), i % 32) = 1

\* the iterations a modPow call is followed for
ModPowFuel == 32

\* this^e % m.  One step is one iteration of the inner or of the outer loop.
\* g holds g[1] alone, so a window w = 0 reads g[0], undefined: g[w].copyTo
\* and multiplyTo's a.t then throw a TypeError.  The result is [st, v]: st
\* is "ok", "TypeError" or, for a call still looping when ModPowFuel is
\* spent, "loop"
modPow(this, e, m) ==
    LET z == Call("Montgomery", <<m>>)
        g1 == Call("convert", <<z, this>>)
        cond(s) == s.st = "ok" /\ s.j >= 0
        body(s) ==
            IF s.inner /\ ~TestBit(Rd(e.d, s.j), s.i)
            THEN [s EXCEPT !.r = Call("sqrTo", <<z, s.r, s.r2>>), !.r2 = s.r, !.i = s.i - 1]
            ELSE LET w == Shr(Rd(e.d, s.j), s.i) % 2
                     wrap == s.i - 1 < 0
                     r2 == IF s.is1 THEN s.r2 ELSE Call("sqrTo", <<z, s.r, s.r2>>)
                 IN IF w # 1 THEN [s EXCEPT !.st = "TypeError"]
                    ELSE CASE Strict(r2) ->
                         [st |-> "ok",
                          r |-> IF s.is1 THEN Call("copyTo", <<g1, s.r>>)
                                ELSE Call("mulTo", <<z, r2, g1, s.r>>),
                          r2 |-> r2,
                          i |-> IF wrap THEN s.i - 1 + DB ELSE s.i - 1,
                          j |-> IF wrap THEN s.j - 1 ELSE s.j,
                          is1 |-> FALSE, inner |-> TRUE]
        s0 == [st |-> "ok", r |-> nbv(1), r2 |-> nbi,
               i |-> Call("nbits", <<Rd(e.d, e.t - 1)>>) - 1, j |-> e.t - 1,
               is1 |-> TRUE, inner |-> FALSE]
        end == CASE Strict(<<this, e, z, g1>>) -> While(cond, body, s0, ModPowFuel)
    IN IF end.st = "ok" /\ end.j >= 0 THEN [st |-> "loop", v |-> nbi]
       ELSE IF end.st = "ok" THEN [st |-> "ok", v |-> Call("revert", <<z, end.r>>)]
       ELSE [st |-> end.st, v |-> nbi]

(***************************************************************************)
(* ByteStringBuffer.ts.  A buffer is [data, read]; a method that returns a *)
(* value and moves the read pointer yields [v, b].                         *)
(***************************************************************************)
\* String.fromCharCode(c): the code unit is c modulo 2^16
fromCharCode(c) == I32(c) % Pow2(16)

ByteStringBuffer(b) == [data |-> b, read |-> 0]

length(b) == Len(b.data) - b.read

putBytes(b, bytes) == [b EXCEPT !.data = @ \o bytes]

putByte(b, x) == putBytes(b, <<fromCharCode(x)>>)

putInt32(b, i) ==
    putBytes(b, <<Low(Shr(i, 24), 8), Low(Shr(i, 16), 8),
                  Low(Shr(i, 8), 8), Low(i, 8)>>)

getByte(b) == [v |-> Rd(b.data, b.read), b |-> [b EXCEPT !.read = @ + 1]]

\* the int32 of a value v * 2^k that is below 2^40
Wrap32(v, k) ==
    LET lo == v % Pow2(32 - k)
    IN IF lo >= Pow2(31 - k) THEN (lo - Pow2(32 - k)) * Pow2(k)
       ELSE lo * Pow2(k)

\* a ^ b of two int32 values of either sign: the sign bits apart
XorS(a, b) ==
    LET a31 == IF a < 0 THEN a + Pow2(30) + Pow2(30) ELSE a
        b31 == IF b < 0 THEN b + Pow2(30) + Pow2(30) ELSE b
        x == Xor(a31, b31)
    IN IF (a < 0) # (b < 0) THEN x - Pow2(30) - Pow2(30) ELSE x

getInt32(b) ==
    LET c(i) == I32(Rd(b.data, b.read + i))
        rval == XorS(XorS(XorS(Wrap32(c(0), 24), Wrap32(c(1), 16)),
                          Wrap32(c(2), 8)), c(3))
    IN [v |-> rval, b |-> [b EXCEPT !.read = @ + 4]]

\* getInt(n): the do-while runs once for n <= 8; rval << 8 is an int32
getInt(b, n) ==
    LET steps == IF n > 8 THEN (n + 7) \div 8 ELSE 1
        body(s, i) ==
            [v |-> Add(Wrap32(I32(s.v), 8), Rd(b.data, s.r)), r |-> s.r + 1]
        s1 == For(body, [v |-> 0, r |-> b.read], 1, steps)
    IN [v |-> s1.v, b |-> [b EXCEPT !.read = s1.r]]

\* s.slice(from, to): an index below 0 counts from the end, NaN is 0
slice(s, from, to) ==
    LET norm(x) == IF x = NaN THEN 0
                   ELSE IF x < 0 THEN (IF Len(s) + x < 0 THEN 0 ELSE Len(s) + x)
                   ELSE IF x > Len(s) THEN Len(s) ELSE x
        lo == norm(from)
        hi == norm(to)
    IN IF hi <= lo THEN <<>> ELSE SubSeq(s, lo + 1, hi)

clear(b) == [data |-> <<>>, read |-> 0]

\* getBytes(count); count is NaN when the argument is omitted or undefined
getBytes(b, count) ==
    IF count # NaN /\ count # 0
    THEN LET n == IF length(b) < count THEN length(b) ELSE count
         IN [v |-> slice(b.data, b.read, b.read + n),
             b |-> [b EXCEPT !.read = @ + n]]
    ELSE IF count = 0 THEN [v |-> <<>>, b |-> b]
    ELSE [v |-> b.data, b |-> clear(b)]

\* bytes(count); count is Undefined when the argument is omitted
bytes(b, count) ==
    IF count # Undefined THEN slice(b.data, b.read, Add(b.read, count))
    ELSE slice(b.data, b.read, Len(b.data))

compact(b) ==
    IF b.read > 0 THEN [data |-> slice(b.data, b.read, Len(b.data)), read |-> 0]
    ELSE b

\* n.toString(16) of 0 <= n < 2^16, without leading zeros
NumberToHex(n) ==
    LET digits == IF n >= 4096 THEN 4 ELSE IF n >= 256 THEN 3
                  ELSE IF n >= 16 THEN 2 ELSE 1
    IN ArrayOf([i \in 1..digits |-> int2char(Nibble(n, digits - i))], digits)

toHex(b) ==
    LET body(rval, i) ==
            LET c == Rd(b.data, i)
            IN rval \o (IF c < 16 THEN <<48>> ELSE <<>>) \o NumberToHex(c)
    IN For(body, <<>>, b.read, Len(b.data) - 1)

\* toArrayBuffer: the elements of the Uint8Array over the ArrayBuffer
toArrayBuffer(b) ==
    LET n == length(b)
        body(u8a, i) ==
            IF i < n THEN [u8a EXCEPT ![i + 1] = Rd(b.data, i) % 256] ELSE u8a
    IN For(body, [i \in 1..n |-> 0], b.read, Len(b.data) - 1)

(***************************************************************************)
(* util.ts                                                                 *)
(***************************************************************************)
xorBytes(s1, s2, n) ==
    ArrayOf([i \in 1..n |-> fromCharCode(Xor(Rd(s1, i - 1), Rd(s2, i - 1)))], n)

(***************************************************************************)
(* The hash engines (sha1.ts, sha256.ts, sha512.ts) and the block cipher   *)
(* (aes.ts) are not among the sources.  A hash state follows the lifecycle *)
(* the specification gives (start initializes, update absorbs, digest      *)
(* returns the digest in a fresh buffer and leaves the state as it was);   *)
(* its compression is a small stand-in of `width` octets.  A state is      *)
(* [digestLength, messageLength, has, width, acc]: `has` is the set of the *)
(* methods the object carries and digestLength is NaN when the object has  *)
(* no such property.                                                       *)
(***************************************************************************)
HashMethods == {"start", "update", "digest"}

HashStart(md) == [md EXCEPT !.messageLength = 0, !.acc = 7]

HashCreate(width) ==
    [digestLength |-> width, messageLength |-> 0, has |-> HashMethods,
     width |-> width, acc |-> 7]

HashUpdate(md, msg) ==
    LET body(acc, i) == (acc * 31 + (I32(msg[i]) % 65536) + md.messageLength + i - 1) % 251
    IN [md EXCEPT !.acc = For(body, md.acc, 1, Len(msg)),
                  !.messageLength = @ + Len(msg)]

HashDigest(md) ==
    ByteStringBuffer(ArrayOf([j \in 1..md.width |->
        (md.acc * (j + 2) + 11 * (j - 1) + md.messageLength) % 256], md.width))

\* aes.ts expandKey and updateBlock: a stand-in on 4 words
expandKey(w) == w \o ArrayOf([j \in 1..4 |-> (I32(w[j]) % 32768) * 3 + j], 4)

updateBlock(key, seed) ==
    ArrayOf([j \in 1..4 |->
        (I32(Rd(key, j - 1)) % 32768) * 32749 + (I32(Rd(seed, j - 1)) % 32768) * 181
        + (I32(Rd(key, j % 4)) % 32768) + j * 7919], 4)

(***************************************************************************)
(* random.ts: the AES plugin of the generator                              *)
(***************************************************************************)
\* the four getInt32 of formatKey and formatSeed
FourWords(s) ==
    LET b0 == ByteStringBuffer(s)
        g1 == Call("getInt32", <<b0>>)
        g2 == Call("getInt32", <<g1.b>>)
        g3 == Call("getInt32", <<g2.b>>)
        g4 == Call("getInt32", <<g3.b>>)
    IN <<g1.v, g2.v, g3.v, g4.v>>

formatKey(key) == expandKey(Call("FourWords", <<key>>))

formatSeed(seed) == Call("FourWords", <<seed>>)

\* _prng_aes_buffer is empty before and after: getBytes() clears it
cipher(key, seed) ==
    LET out == Call("updateBlock", <<key, seed>>)
        buf == Call("putInt32", <<Call("putInt32", <<Call("putInt32", <<Call("putInt32", <<ByteStringBuffer(<<>>),
                   out[1]>>), out[2]>>), out[3]>>), out[4]>>)
    IN Call("getBytes", <<buf, NaN>>).v

increment(seed) == Wr(seed, 3, Add(Rd(seed, 3), 1))

(***************************************************************************)
(* prng.ts.  The context is [key, seed, reseeds, generated, keyBytes,      *)
(* pools, pool].  Math.random is an input: rnd.s is the value of           *)
(* floor(Math.random() * 0x010000) and rnd.x the value every               *)
(* floor(Math.random() * 0x0100) of one call yields.                       *)
(***************************************************************************)
PrngDigestLength == 32

createPRNGContext ==
    [key |-> <<>>, seed |-> <<>>, reseeds |-> 0, generated |-> 0,
     keyBytes |-> <<>>, pools |-> [i \in 1..32 |-> HashCreate(PrngDigestLength)],
     pool |-> 0]

\* one round of the Park-Miller generator on the int32 seed; lo is a double
\* that reaches 2^32, kept here as its bit 31 and its low 31 bits
ParkMiller(seed) ==
    LET lo1 == 16807 * Low(seed, 16)
        hi == 16807 * Shr(seed, 16)
        b == Shl(Low(hi, 15), 16)
        s1 == lo1 + Shr(hi, 15)
        high == s1 > 2147483647 - b
        low31 == IF high THEN s1 - (2147483647 - b) - 1
                 ELSE IF s1 + b < 0 THEN 2147483647
                 ELSE s1 + b
        neg == high \/ s1 + b < 0
    IN IF neg THEN low31 - 1 ELSE low31

\* The loop runs while b.length() < needed, three bytes a round: the rounds
\* are numbered here, seeds[r] is the seed of round r, and getBytes(needed)
\* keeps the first `needed` of the bytes put.
defaultSeedFile(needed, rnd) ==
    LET rounds == (needed + 2) \div 3
        body(seeds, r) ==
            Append(seeds, Call("ParkMiller", <<IF r = 1 THEN rnd.s ELSE seeds[r - 1]>>))
        seeds == For(body, <<>>, 1, rounds)
        next(seed, i) == Low(Xor(Low(Shr(seed, 8 * i), 8), rnd.x), 8)
    IN CASE Strict(seeds) ->
        ArrayOf([j \in 1..needed |-> next(seeds[(j - 1) \div 3 + 1], (j - 1) % 3)],
                needed)

\* collect with the pool index wrapping one pool early, at 30
collectWrapsEarly(ctx, bs) ==
    LET body(c, i) ==
            [c EXCEPT !.pools[c.pool + 1] = Call("HashUpdate", <<@, slice(bs, i, i + 1)>>),
                      !.pool = IF c.pool >= 30 THEN 0 ELSE c.pool + 1]
    IN For(body, ctx, 0, Len(bs) - 1)

collect(ctx, bs) ==
    LET body(c, i) ==
            [c EXCEPT !.pools[c.pool + 1] = Call("HashUpdate", <<@, slice(bs, i, i + 1)>>),
                      !.pool = IF c.pool = 31 THEN 0 ELSE c.pool + 1]
    IN For(body, ctx, 0, Len(bs) - 1)

\* the selection with _2powK doubled after the test of the next pool, not
\* of this one: pool k is tested against 2^(k - 1)
PoolSelectedLate(reseeds, k) ==
    k = 0 \/ reseeds % Pow2(k - 1) = 0

\* reseeds % _2powK === 0 at step k; _2powK is 1 << 31 = -2^31 at k = 31
PoolSelected(reseeds, k) ==
    IF k < 31 THEN reseeds % Pow2(k) = 0 ELSE reseeds = 0

\* reseeds is below 2^31 here: the wrap at 0xffffffff is out of reach
_seed(ctx) ==
    LET reseeds == ctx.reseeds + 1
        body(s, k) ==
            IF PoolSelected(reseeds, k)
            THEN [md |-> Call("HashUpdate", <<s.md, Call("getBytes", <<Call("HashDigest", <<s.pools[k + 1]>>), NaN>>).v>>),
                  pools |-> [s.pools EXCEPT ![k + 1] = HashStart(@)]]
            ELSE s
        s1 == For(body, [md |-> Call("HashUpdate", <<HashCreate(PrngDigestLength), ctx.keyBytes>>),
                         pools |-> ctx.pools], 0, 31)
        keyBytes == Call("getBytes", <<Call("HashDigest", <<s1.md>>), NaN>>).v
        seedBytes == Call("getBytes", <<Call("HashDigest", <<Call("HashUpdate", <<HashStart(s1.md), keyBytes>>)>>), NaN>>).v
    IN CASE Strict(s1) ->
         [ctx EXCEPT !.reseeds = reseeds, !.pools = s1.pools,
                     !.keyBytes = keyBytes, !.key = Call("formatKey", <<keyBytes>>),
                     !.seed = Call("formatSeed", <<seedBytes>>), !.generated = 0]

_reseedSync(ctx, rnd) ==
    LET needed == Shl(32 - ctx.pools[1].messageLength, 5)
        c1 == Call("collect", <<ctx, Call("defaultSeedFile", <<needed, rnd>>)>>)
    IN CASE Strict(c1) -> Call("_seed", <<c1>>)

\* generateSync(count): [v, ctx]; count is NaN when it is undefined
generateSync(ctx, count, rnd) ==
    LET cond(s) == count # NaN /\ length(s.b) < count
        body(s) ==
            LET c1 == IF Len(s.ctx.key) = 0 THEN Call("_reseedSync", <<s.ctx, rnd>>) ELSE s.ctx
                bytes1 == Call("cipher", <<c1.key, c1.seed>>)
                seed1 == Call("increment", <<c1.seed>>)
                key2 == Call("formatKey", <<Call("cipher", <<c1.key, seed1>>)>>)
                seed2 == Call("formatSeed", <<Call("cipher", <<key2, seed1>>)>>)
            IN CASE Strict(c1) ->
                 [ctx |-> [c1 EXCEPT !.generated = @ + Len(bytes1),
                                     !.key = key2, !.seed = seed2],
                  b |-> putBytes(s.b, bytes1)]
        s1 == While(cond, body,
                    [ctx |-> [ctx EXCEPT !.key = <<>>], b |-> ByteStringBuffer(<<>>)],
                    IF count = NaN THEN 0 ELSE count)
    IN [v |-> Call("getBytes", <<s1.b, count>>).v, ctx |-> s1.ctx]

(***************************************************************************)
(* pkcs1.ts (printed in jsbn.ts): RSAES-OAEP encoding.  md.start(),        *)
(* md.update() and md.digest() throw a TypeError on an object without the  *)
(* method.  A result is [st, ...]: st is "ok" or the name of the error.    *)
(***************************************************************************)
\* Math.ceil(a / b) of numbers, b > 0; NaN when either is
Ceil(a, b) == IF a = NaN \/ b = NaN THEN NaN ELSE 0 - ((0 - a) \div b)

\* t.substring(0, n): NaN counts as 0 (for n undefined the source's t is '')
substring0(t, n) ==
    IF n = NaN \/ n < 0 THEN <<>> ELSE slice(t, 0, n)

\* rsa_mgf1 without hash.start() in its loop: each block is absorbed on top
\* of what the state holds
rsa_mgf1NoStart(seed, maskLength, hash) ==
    LET count == Ceil(maskLength, hash.digestLength)
        body(s, i) ==
            LET c == <<Low(Shr(i, 24), 8), Low(Shr(i, 16), 8),
                       Low(Shr(i, 8), 8), Low(i, 8)>>
                h == Call("HashUpdate", <<s.md, seed \o c>>)
            IN IF s.st # "ok" THEN s
               ELSE IF ~(HashMethods \subseteq s.md.has)
               THEN [s EXCEPT !.st = "TypeError"]
               ELSE [st |-> "ok", md |-> h,
                     t |-> s.t \o Call("getBytes", <<Call("HashDigest", <<h>>), NaN>>).v]
        s1 == For(body, [st |-> "ok", md |-> hash, t |-> <<>>], 0,
                  IF count = NaN THEN 0 - 1 ELSE count - 1)
    IN [st |-> s1.st, v |-> substring0(s1.t, maskLength), md |-> s1.md]

\* [st, v, md]
rsa_mgf1(seed, maskLength, hash) ==
    LET count == Ceil(maskLength, hash.digestLength)
        body(s, i) ==
            LET c == <<Low(Shr(i, 24), 8), Low(Shr(i, 16), 8),
                       Low(Shr(i, 8), 8), Low(i, 8)>>
                h == Call("HashUpdate", <<HashStart(s.md), seed \o c>>)
            IN IF s.st # "ok" THEN s
               ELSE IF ~(HashMethods \subseteq s.md.has)
               THEN [s EXCEPT !.st = "TypeError"]
               ELSE [st |-> "ok", md |-> h,
                     t |-> s.t \o Call("getBytes", <<Call("HashDigest", <<h>>), NaN>>).v]
        s1 == For(body, [st |-> "ok", md |-> hash, t |-> <<>>], 0,
                  IF count = NaN THEN 0 - 1 ELSE count - 1)
    IN [st |-> s1.st, v |-> substring0(s1.t, maskLength), md |-> s1.md]

\* encode_rsa_oaep without md.start(): the label is absorbed on top of what
\* the state holds
encode_rsa_oaepNoStart(key, message, md, ctx, rnd) ==
    LET fail == [st |-> "TypeError", em |-> <<>>, seed |-> <<>>, ctx |-> ctx]
        md1 == md
        keyLength == Ceil(Call("bitLength", <<key>>), 8)
        maxLength == Sub(Sub(keyLength, Mul(2, md.digestLength)), 2)
        md2 == Call("HashUpdate", <<md1, <<>>>>)
        lHash == Call("HashDigest", <<md2>>)
        PS_length == Sub(maxLength, Len(message))
        PS == IF PS_length = NaN \/ PS_length <= 0 THEN <<>>
              ELSE ArrayOf([i \in 1..PS_length |-> 0], PS_length)
        DB0 == Call("getBytes", <<lHash, NaN>>).v \o PS \o <<1>> \o message
        g == Call("generateSync", <<ctx, md.digestLength, rnd>>)
        dbMask == Call("rsa_mgf1", <<g.v, Sub(Sub(keyLength, md.digestLength), 1), md2>>)
        maskedDB == Call("xorBytes", <<DB0, dbMask.v, Len(DB0)>>)
        seedMask == Call("rsa_mgf1", <<maskedDB, md.digestLength, dbMask.md>>)
        maskedSeed == Call("xorBytes", <<g.v, seedMask.v, Len(g.v)>>)
    IN IF ~(HashMethods \subseteq md.has) THEN fail
       ELSE CASE Strict(g) /\ Strict(dbMask) /\ Strict(seedMask) ->
            [st |-> "ok", em |-> <<0>> \o maskedSeed \o maskedDB,
             seed |-> g.v, ctx |-> g.ctx]

\* [st, em, seed, ctx]: ctx is the generator's context after the call
encode_rsa_oaep(key, message, md, ctx, rnd) ==
    LET fail == [st |-> "TypeError", em |-> <<>>, seed |-> <<>>, ctx |-> ctx]
        md1 == HashStart(md)
        keyLength == Ceil(Call("bitLength", <<key>>), 8)
        maxLength == Sub(Sub(keyLength, Mul(2, md.digestLength)), 2)
        md2 == Call("HashUpdate", <<md1, <<>>>>)
        lHash == Call("HashDigest", <<md2>>)
        PS_length == Sub(maxLength, Len(message))
        PS == IF PS_length = NaN \/ PS_length <= 0 THEN <<>>
              ELSE ArrayOf([i \in 1..PS_length |-> 0], PS_length)
        DB0 == Call("getBytes", <<lHash, NaN>>).v \o PS \o <<1>> \o message
        g == Call("generateSync", <<ctx, md.digestLength, rnd>>)
        dbMask == Call("rsa_mgf1", <<g.v, Sub(Sub(keyLength, md.digestLength), 1), md2>>)
        maskedDB == Call("xorBytes", <<DB0, dbMask.v, Len(DB0)>>)
        seedMask == Call("rsa_mgf1", <<maskedDB, md.digestLength, dbMask.md>>)
        maskedSeed == Call("xorBytes", <<g.v, seedMask.v, Len(g.v)>>)
    IN IF ~(HashMethods \subseteq md.has) THEN fail
       ELSE CASE Strict(g) /\ Strict(dbMask) /\ Strict(seedMask) ->
            [st |-> "ok", em |-> <<0>> \o maskedSeed \o maskedDB,
             seed |-> g.v, ctx |-> g.ctx]

(***************************************************************************)
(* rsa.ts                                                                  *)
(***************************************************************************)
\* parseInt(s, 16) of one or two hexadecimal digits
parseInt16(s) ==
    IF Len(s) = 1 THEN intAt(s, 0) ELSE 16 * intAt(s, 0) + intAt(s, 1)

\* [st, v]: v is the Uint8Array over the ArrayBuffer of k bytes; a write at
\* an index outside 0..k-1 leaves it as it is
rsaEncrypt(m, key) ==
    LET k == Ceil(Call("bitLength", <<key.n>>), 8)
        x == Call("fromString", <<Call("toHex", <<putBytes(ByteStringBuffer(<<>>), m)>>)>>)
        y == Call("modPow", <<x, key.e, key.n>>)
        yhex == Call("toString", <<y.v>>)
        prependedLength == k - Ceil(Len(yhex), 2)
        odd == Len(yhex) % 2
        put(u8a, i, v) ==
            IF i >= 0 /\ i < k THEN [u8a EXCEPT ![i + 1] = v % 256] ELSE u8a
        first(u8a) ==
            IF odd = 1 THEN put(u8a, prependedLength, parseInt16(slice(yhex, 0, 1)))
            ELSE u8a
        body(u8a, j) ==
            LET i == odd + 2 * j
            IN put(u8a, prependedLength + Ceil(i, 2), parseInt16(slice(yhex, i, i + 2)))
    IN CASE Strict(x) /\ Strict(y) ->
        IF y.st # "ok" THEN [st |-> y.st, v |-> <<>>]
        ELSE [st |-> "ok",
              v |-> For(body, first([i \in 1..k |-> 0]), 0,
                        (Len(yhex) - odd) \div 2 - 1)]

\* the encrypt of the object setRsaPublicKey returns: [st, v, em, seed, ctx]
encrypt(key, data, md, ctx, rnd) ==
    LET e == Call("encode_rsa_oaep", <<key.n, data, md, ctx, rnd>>)
        c == Call("rsaEncrypt", <<e.em, key>>)
    IN CASE Strict(e) ->
        IF e.st # "ok"
        THEN [st |-> e.st, v |-> <<>>, em |-> <<>>, seed |-> <<>>, ctx |-> e.ctx]
        ELSE CASE Strict(c) ->
             [st |-> c.st, v |-> c.v, em |-> e.em, seed |-> e.seed, ctx |-> e.ctx]

(***************************************************************************)
(* util.ts: decode64                                                       *)
(***************************************************************************)
IsUpper(c) == c >= 65 /\ c <= 90
IsLower(c) == c >= 97 /\ c <= 122
IsDigit(c) == c >= 48 /\ c <= 57

\* \s of a JavaScript regular expression
IsSpace(c) ==
    \/ c \in {9, 10, 11, 12, 13, 32, 160, 5760, 8232, 8233, 8239, 8287, 12288, 65279}
    \/ (c >= 8192 /\ c <= 8202)

\* [A-Za-z0-9+/=]
IsBase64(c) == IsUpper(c) \/ IsLower(c) \/ IsDigit(c) \/ c \in {43, 47, 61}

\* Base64Idx[c - 43]
Base64Idx(c) ==
    IF c = NaN \/ c < 43 \/ c > 122 THEN NaN
    ELSE IF c = 43 THEN 62
    ELSE IF c = 47 THEN 63
    ELSE IF IsDigit(c) THEN c + 4
    ELSE IF c = 61 THEN 64
    ELSE IF IsUpper(c) THEN c - 65
    ELSE IF IsLower(c) THEN c - 71
    ELSE 0 - 1

decode64(input0) ==
    LET input == SelectSeq(input0, IsBase64)
        group(g) ==
            LET enc1 == Base64Idx(Rd(input, 4 * g))
                enc2 == Base64Idx(Rd(input, 4 * g + 1))
                enc3 == Base64Idx(Rd(input, 4 * g + 2))
                enc4 == Base64Idx(Rd(input, 4 * g + 3))
            IN <<fromCharCode(Or(Shl(enc1, 2), Shr(enc2, 4)))>>
               \o (IF enc3 # 64
                   THEN <<fromCharCode(Or(Shl(Low(enc2, 4), 4), Shr(enc3, 2)))>>
                        \o (IF enc4 # 64
                            THEN <<fromCharCode(Or(Shl(Low(enc3, 2), 6), enc4))>>
                            ELSE <<>>)
                   ELSE <<>>)
    IN Flatten([g \in 1..((Len(input) + 3) \div 4) |-> group(g - 1)])

(***************************************************************************)
(* pem.ts: pemDecode.  rMessage is                                         *)
(*   \s*-----BEGIN ([A-Z0-9- ]+)-----\r?\n?                                *)
(*   ([\x21-\x7e\s]+?(?:\r?\n\r?\n))?([:A-Za-z0-9+/=\s]+?)-----END \1----- *)
(* A match is [b, le, cr, nl, hd, bs, be]: "-----BEGIN " at b, the label   *)
(* up to le, the optional \r and \n taken or not, the header group up to   *)
(* hd (0 - 1 without one), the body pem[bs..be-1].  exec returns the first *)
(* match in the order of the backtracking: the leftmost b, the longest     *)
(* label, \r and \n taken, the shortest header before none; the body       *)
(* holds no '-', so it ends at the first one.                              *)
(***************************************************************************)
LitBegin == <<45, 45, 45, 45, 45, 66, 69, 71, 73, 78, 32>>
LitEnd == <<45, 45, 45, 45, 45, 69, 78, 68, 32>>
LitDashes == <<45, 45, 45, 45, 45>>

\* the literal lit is in s at index i
LitAt(s, i, lit) ==
    i >= 0 /\ i + Len(lit) <= Len(s) /\ \A k \in 1..Len(lit) : s[i + k] = lit[k]

IsLabelChar(c) == IsUpper(c) \/ IsDigit(c) \/ c \in {45, 32}
IsBodyChar(c) == IsBase64(c) \/ c = 58 \/ IsSpace(c)
IsHeaderChar(c) == (c >= 33 /\ c <= 126) \/ IsSpace(c)

\* every character of s[from..to-1] satisfies class, and there is one
AllIn(s, from, to, class(_)) ==
    from < to /\ \A k \in (from + 1)..to : class(s[k])

\* the ends of \r?\n\r?\n in s
BlankLineEnds(s) ==
    {h \in 2..Len(s) :
        \/ LitAt(s, h - 2, <<10, 10>>)
        \/ LitAt(s, h - 3, <<13, 10, 10>>)
        \/ LitAt(s, h - 3, <<10, 13, 10>>)
        \/ LitAt(s, h - 4, <<13, 10, 13, 10>>)}

\* the start of the \r?\n\r?\n that ends at h, the longest first
BlankLineStarts(s, h) ==
    {h - n : n \in {n \in 2..4 :
        \/ n = 2 /\ LitAt(s, h - 2, <<10, 10>>)
        \/ n = 3 /\ (LitAt(s, h - 3, <<13, 10, 10>>) \/ LitAt(s, h - 3, <<10, 13, 10>>))
        \/ n = 4 /\ LitAt(s, h - 4, <<13, 10, 13, 10>>)}}

\* -----END [A-Z0-9- ]+----- at be, whatever the label
EndArmorAnyLabel(pem, be, label) ==
    /\ LitAt(pem, be, LitEnd)
    /\ \E le \in (be + 10)..Len(pem) :
          AllIn(pem, be + 9, le, IsLabelChar) /\ LitAt(pem, le, LitDashes)

\* -----END \1----- at be, \1 being the label of the BEGIN line
EndArmorAt(pem, be, label) ==
    /\ LitAt(pem, be, LitEnd)
    /\ LitAt(pem, be + 9, label)
    /\ LitAt(pem, be + 9 + Len(label), LitDashes)

PemMatches(pem) ==
    LET n == Len(pem)
        dashes == {i \in 0..(n - 1) : pem[i + 1] = 45}
        begins == {b \in dashes : LitAt(pem, b, LitBegin)}
        labels(b) == {le \in dashes : /\ AllIn(pem, b + 11, le, IsLabelChar)
                                      /\ LitAt(pem, le, LitDashes)}
        tail(b, le, bs) ==
            LET after == {i \in dashes : i >= bs}
                be == IF after = {} THEN n ELSE Min(after)
            IN IF /\ AllIn(pem, bs, be, IsBodyChar)
                  /\ EndArmorAt(pem, be, SubSeq(pem, b + 12, le))
               THEN {be} ELSE {}
        heads(p) == {0 - 1} \cup
            {h \in BlankLineEnds(pem) :
                \E t \in BlankLineStarts(pem, h) : AllIn(pem, p, t, IsHeaderChar)}
    IN UNION {UNION {UNION {UNION {UNION {
          {[b |-> b, le |-> le, cr |-> cr, nl |-> nl, hd |-> hd,
            bs |-> (IF hd < 0 THEN le + 5 + cr + nl ELSE hd), be |-> be] :
              be \in tail(b, le, IF hd < 0 THEN le + 5 + cr + nl ELSE hd)} :
          hd \in heads(le + 5 + cr + nl)} :
          nl \in {k \in {0, 1} : k = 0 \/ Rd(pem, le + 5 + cr) = 10}} :
          cr \in {k \in {0, 1} : k = 0 \/ Rd(pem, le + 5) = 13}} :
          le \in labels(b)} : b \in begins}

\* m is tried before m2
PemBefore(m, m2) ==
    LET key(x) == <<x.b, 0 - x.le, 1 - x.cr, 1 - x.nl,
                    IF x.hd < 0 THEN 2147483647 ELSE x.hd>>
        k1 == key(m)
        k2 == key(m2)
    IN \E i \in 1..5 : k1[i] < k2[i] /\ \A j \in 1..(i - 1) : k1[j] = k2[j]

\* [st, v]: the decoded body, or the error 'Invalid PEM formatted message.'
pemDecode(pem) ==
    LET ms == Call("PemMatches", <<pem>>)
        match == CHOOSE m \in ms : \A m2 \in ms \ {m} : PemBefore(m, m2)
    IN IF ms = {} THEN [st |-> "InvalidPEM", v |-> <<>>]
       ELSE [st |-> "ok", v |-> Call("decode64", <<slice(pem, match.bs, match.be)>>)]

(***************************************************************************)
(* asn1.ts.  An ASN.1 object is [tagClass, type, constructed, arr, value,  *)
(* bitStringContents]: arr tells an array of objects from a string in      *)
(* value, and bitStringContents is empty when the object has none.         *)
(***************************************************************************)
ClassUNIVERSAL == 0
TypeINTEGER == 2
TypeBITSTRING == 3
TypeNULL == 5
TypeOID == 6
TypeSEQUENCE == 16

\* a validator node; sub tells whether it carries `value`
Validator(tagClass, type, constructed, sub, value) ==
    [tagClass |-> tagClass, type |-> type, constructed |-> constructed,
     sub |-> sub, value |-> value]

RSAPublicKeyValidator ==
    Validator(ClassUNIVERSAL, TypeSEQUENCE, TRUE, TRUE,
        <<Validator(ClassUNIVERSAL, TypeINTEGER, FALSE, FALSE, <<>>),
          Validator(ClassUNIVERSAL, TypeINTEGER, FALSE, FALSE, <<>>)>>)

PublicKeyValidator ==
    Validator(ClassUNIVERSAL, TypeSEQUENCE, TRUE, TRUE,
        <<Validator(ClassUNIVERSAL, TypeSEQUENCE, TRUE, TRUE,
            <<Validator(ClassUNIVERSAL, TypeNULL, FALSE, FALSE, <<>>),
              Validator(ClassUNIVERSAL, TypeOID, FALSE, FALSE, <<>>)>>),
          Validator(ClassUNIVERSAL, TypeBITSTRING, FALSE, TRUE,
            <<Validator(ClassUNIVERSAL, TypeSEQUENCE, TRUE, FALSE, <<>>)>>)>>)

create(tagClass, type, constructed, arr, value, bitStringContents) ==
    [tagClass |-> tagClass, type |-> type, constructed |-> constructed,
     arr |-> arr, value |-> value, bitStringContents |-> bitStringContents]

\* s[0] of a string s, where the source expects an object: it has no
\* tagClass, type, constructed or value
CharAsObject == create(NaN, NaN, FALSE, FALSE, <<>>, <<>>)

validate(obj, v) ==
    /\ obj.tagClass = v.tagClass
    /\ obj.type = v.type
    /\ obj.constructed = v.constructed
    /\ (~v.sub \/ Len(obj.value) = Len(v.value))

_getValueLength(b) ==
    LET g == getByte(b)
        longForm == g.v # NaN /\ g.v % 256 >= 128
    IN IF ~longForm THEN g
       ELSE Call("getInt", <<g.b, Shl(Low(g.v, 7), 3)>>)

\* b & mask for a character code b or NaN, mask = 2^hi - 2^lo
Bits(b, lo, hi) == (I32(b) % Pow2(hi)) - (I32(b) % Pow2(lo))

RECURSIVE _fromDer(_, _)
\* [st, obj, bytes]; st is "loop" when a constructed object's while loop
\* runs an iteration that leaves the buffer and `length` as they were: it
\* does so forever
_fromDer(bytes0, depth) ==
    LET g1 == getByte(bytes0)
        b1 == g1.v
        tagClass == Bits(b1, 6, 8)
        type == Low(b1, 5)
        gl == Call("_getValueLength", <<g1.b>>)
        length0 == gl.v
        constructed == Bits(b1, 5, 6) = 32
        cond(s) == s.st = "ok" /\ s.length # NaN /\ s.length > 0
        body(s) ==
            LET start == length(s.bytes)
                child == Call("_fromDer", <<s.bytes, depth + 1>>)
                len1 == s.length - (start - length(child.bytes))
            IN IF child.st # "ok" THEN [s EXCEPT !.st = child.st]
               ELSE IF child.bytes = s.bytes /\ len1 = s.length
               THEN [s EXCEPT !.st = "loop"]
               ELSE [st |-> "ok", length |-> len1, bytes |-> child.bytes,
                     value |-> Append(s.value, child.obj)]
        kids == While(cond, body,
                      [st |-> "ok", length |-> length0, bytes |-> gl.b, value |-> <<>>],
                      Len(bytes0.data) + 4)
        isBits == ~constructed /\ tagClass = ClassUNIVERSAL /\ type = TypeBITSTRING
        bitStringContents == IF isBits THEN bytes(gl.b, length0) ELSE <<>>
        gu == getByte(gl.b)
        composed == Call("_fromDer", <<gu.b, depth + 1>>)
        used == length(gu.b) - length(composed.bytes) + 1
        raw(b) == LET r == Call("getBytes", <<b, length0>>)
                  IN [st |-> "ok", bytes |-> r.b,
                      obj |-> create(tagClass, type, constructed, FALSE, r.v,
                                     bitStringContents)]
    IN IF constructed
       THEN [st |-> IF kids.st = "ok" /\ cond(kids) THEN "loop" ELSE kids.st,
             bytes |-> kids.bytes,
             obj |-> create(tagClass, type, constructed, TRUE, kids.value, <<>>)]
       ELSE IF isBits /\ length0 # NaN /\ length0 > 1
       THEN IF gu.v # 0 THEN raw(gu.b)
            ELSE IF composed.st # "ok"
            THEN [st |-> composed.st, bytes |-> composed.bytes, obj |-> CharAsObject]
            ELSE IF used = length0
            THEN [st |-> "ok", bytes |-> composed.bytes,
                  obj |-> create(tagClass, type, constructed, TRUE,
                                 <<composed.obj>>, bitStringContents)]
            ELSE raw(composed.bytes)
       ELSE raw(gl.b)

fromDer(b) == Call("_fromDer", <<ByteStringBuffer(b), 0>>)

\* the decimal digits of n >= 0
Digits(n) ==
    LET len == IF n = 0 THEN 1 ELSE Max({k \in 1..10 : n \div (10 ^ (k - 1)) > 0})
    IN ArrayOf([i \in 1..len |-> 48 + ((n \div (10 ^ (len - i))) % 10)], len)

\* '' + n of a number n: "NaN" for NaN
NumberToString(n) ==
    IF n = NaN THEN <<78, 97, 78>>
    ELSE IF n < 0 THEN <<45>> \o Digits(0 - n)
    ELSE Digits(n)

derToOid(b0) ==
    LET g == getByte(ByteStringBuffer(b0))
        head == IF g.v = NaN THEN <<78, 97, 78, 46, 78, 97, 78>>
                ELSE NumberToString(g.v \div 40) \o <<46>> \o NumberToString(g.v % 40)
        body(s, i) ==
            LET b == Rd(b0, i)
                value == Wrap32(s.value, 7)
            IN IF Bits(b, 7, 8) # 0
               THEN [s EXCEPT !.value = value + Low(b, 7)]
               ELSE [oid |-> s.oid \o <<46>> \o NumberToString(value + b), value |-> 0]
    IN For(body, [oid |-> head, value |-> 0], 1, Len(b0) - 1).oid

\* [ok, publicKeyOid, rsaPublicKey]: ok is FALSE for null.  The OID is the
\* value of the first child of the AlgorithmIdentifier; an array there makes
\* an empty ByteStringBuffer in derToOid, as derToOid('') does
deconstructPublicKey(obj) ==
    IF /\ Call("validate", <<obj, PublicKeyValidator>>)
       /\ \A i \in 1..Len(PublicKeyValidator.value) :
             Call("validate", <<obj.value[i], PublicKeyValidator.value[i]>>)
    THEN [ok |-> TRUE,
          publicKeyOid |-> IF obj.value[1].value[1].arr THEN <<>>
                           ELSE obj.value[1].value[1].value,
          rsaPublicKey |-> IF obj.value[2].arr THEN obj.value[2].value[1]
                           ELSE CharAsObject]
    ELSE [ok |-> FALSE, publicKeyOid |-> <<>>, rsaPublicKey |-> CharAsObject]

\* [ok, publicKeyModulus, publicKeyExponent]
deconstructRSAPublicKey(obj) ==
    IF /\ Call("validate", <<obj, RSAPublicKeyValidator>>)
       /\ \A i \in 1..Len(RSAPublicKeyValidator.value) :
             Call("validate", <<obj.value[i], RSAPublicKeyValidator.value[i]>>)
    THEN [ok |-> TRUE, publicKeyModulus |-> obj.value[1].value,
          publicKeyExponent |-> obj.value[2].value]
    ELSE [ok |-> FALSE, publicKeyModulus |-> <<>>, publicKeyExponent |-> <<>>]

(***************************************************************************)
(* rsa.ts: the import.  A result is [st, msg, key]: st is "ok", "Error"    *)
(* with the message of the Error thrown, or "loop".                        *)
(***************************************************************************)
\* '1.2.840.113549.1.1.1'
RSAPublicKeyIOD ==
    <<49, 46, 50, 46, 56, 52, 48, 46, 49, 49, 51, 53, 52, 57, 46, 49, 46, 49, 46, 49>>

NoKey == [n |-> nbi, e |-> nbi]

Thrown(msg) == [st |-> "Error", msg |-> msg, key |-> NoKey]

setRsaPublicKey(n, e) == [n |-> n, e |-> e]

publicKeyFromAsn1(obj) ==
    LET publicKey == Call("deconstructPublicKey", <<obj>>)
        rsaPublicKey == Call("deconstructRSAPublicKey", <<publicKey.rsaPublicKey>>)
        n == Call("toHex", <<ByteStringBuffer(rsaPublicKey.publicKeyModulus)>>)
        e == Call("toHex", <<ByteStringBuffer(rsaPublicKey.publicKeyExponent)>>)
    IN IF ~publicKey.ok THEN Thrown("Invalid RSAPublicKey.")
       ELSE IF Call("derToOid", <<publicKey.publicKeyOid>>) # RSAPublicKeyIOD
       THEN Thrown("Cannot read public key. Unknown OID.")
       ELSE IF ~rsaPublicKey.ok
       THEN Thrown("ASN.1 object does not contain an RSAPublicKey.")
       ELSE [st |-> "ok", msg |-> "",
             key |-> setRsaPublicKey(Call("fromString", <<n>>), Call("fromString", <<e>>))]

publicKeyFromPem(pemKey) ==
    LET body == Call("pemDecode", <<pemKey>>)
        obj == Call("fromDer", <<body.v>>)
    IN IF body.st # "ok" THEN Thrown("Invalid PEM formatted message.")
       ELSE CASE Strict(obj) ->
            IF obj.st # "ok" THEN [st |-> obj.st, msg |-> "", key |-> NoKey]
            ELSE Call("publicKeyFromAsn1", <<obj.obj>>)

\* mod.ts
importPublicKey(pem) == Call("publicKeyFromPem", <<pem>>)

(***************************************************************************)
(* A call from one function of the source to another is Call(f, a): f is   *)
(* the callee's name and a the tuple of its arguments.                      *)
(***************************************************************************)
Call(f, a) ==
    CASE f = "nbits" -> nbits(a[1])
      [] f = "clamp" -> clamp(a[1])
      [] f = "bitLength" -> bitLength(a[1])
      [] f = "am" -> am(a[1], a[2], a[3], a[4], a[5], a[6], a[7])
      [] f = "dlShiftTo" -> dlShiftTo(a[1], a[2], a[3])
      [] f = "drShiftTo" -> drShiftTo(a[1], a[2], a[3])
      [] f = "lShiftTo" -> lShiftTo(a[1], a[2], a[3])
      [] f = "rShiftTo" -> rShiftTo(a[1], a[2], a[3])
      [] f = "subTo" -> subTo(a[1], a[2], a[3])
      [] f = "multiplyTo" -> multiplyTo(a[1], a[2], a[3])
      [] f = "squareTo" -> squareTo(a[1], a[2])
      [] f = "QuotientDigit" -> QuotientDigit(a[1], a[2], a[3], a[4])
      [] f = "divRemTo" -> divRemTo(a[1], a[2], a[3])
      [] f = "invDigit" -> invDigit(a[1])
      [] f = "copyTo" -> copyTo(a[1], a[2])
      [] f = "fromString" -> fromString(a[1])
      [] f = "toString" -> toString(a[1])
      [] f = "Montgomery" -> Montgomery(a[1])
      [] f = "reduce" -> reduce(a[1], a[2])
      [] f = "convert" -> convert(a[1], a[2])
      [] f = "revert" -> revert(a[1], a[2])
      [] f = "sqrTo" -> sqrTo(a[1], a[2], a[3])
      [] f = "mulTo" -> mulTo(a[1], a[2], a[3], a[4])
      [] f = "modPow" -> modPow(a[1], a[2], a[3])
      [] f = "putInt32" -> putInt32(a[1], a[2])
      [] f = "getInt32" -> getInt32(a[1])
      [] f = "getInt" -> getInt(a[1], a[2])
      [] f = "getBytes" -> getBytes(a[1], a[2])
      [] f = "toHex" -> toHex(a[1])
      [] f = "toArrayBuffer" -> toArrayBuffer(a[1])
      [] f = "xorBytes" -> xorBytes(a[1], a[2], a[3])
      [] f = "HashUpdate" -> HashUpdate(a[1], a[2])
      [] f = "HashDigest" -> HashDigest(a[1])
      [] f = "updateBlock" -> updateBlock(a[1], a[2])
      [] f = "FourWords" -> FourWords(a[1])
      [] f = "formatKey" -> formatKey(a[1])
      [] f = "formatSeed" -> formatSeed(a[1])
      [] f = "cipher" -> cipher(a[1], a[2])
      [] f = "increment" -> increment(a[1])
      [] f = "ParkMiller" -> ParkMiller(a[1])
      [] f = "defaultSeedFile" -> defaultSeedFile(a[1], a[2])
      [] f = "collect" -> collect(a[1], a[2])
      [] f = "_seed" -> _seed(a[1])
      [] f = "_reseedSync" -> _reseedSync(a[1], a[2])
      [] f = "generateSync" -> generateSync(a[1], a[2], a[3])
      [] f = "rsa_mgf1" -> rsa_mgf1(a[1], a[2], a[3])
      [] f = "encode_rsa_oaep" -> encode_rsa_oaep(a[1], a[2], a[3], a[4], a[5])
      [] f = "rsaEncrypt" -> rsaEncrypt(a[1], a[2])
      [] f = "encrypt" -> encrypt(a[1], a[2], a[3], a[4], a[5])
      [] f = "decode64" -> decode64(a[1])
      [] f = "PemMatches" -> PemMatches(a[1])
      [] f = "pemDecode" -> pemDecode(a[1])
      [] f = "validate" -> validate(a[1], a[2])
      [] f = "_getValueLength" -> _getValueLength(a[1])
      [] f = "_fromDer" -> _fromDer(a[1], a[2])
      [] f = "fromDer" -> fromDer(a[1])
      [] f = "derToOid" -> derToOid(a[1])
      [] f = "deconstructPublicKey" -> deconstructPublicKey(a[1])
      [] f = "deconstructRSAPublicKey" -> deconstructRSAPublicKey(a[1])
      [] f = "publicKeyFromAsn1" -> publicKeyFromAsn1(a[1])
      [] f = "publicKeyFromPem" -> publicKeyFromPem(a[1])
      [] f = "importPublicKey" -> importPublicKey(a[1])

(***************************************************************************)
(* tests/rsa.test.ts: the key pairs and the inputs of the calls.  A key    *)
(* pair is [n, e, p, q, dP, dQ, qInv], n and e as big-endian octets; the   *)
(* test's PUBLIC_KEY is the PEM of its SubjectPublicKeyInfo.               *)
(***************************************************************************)
KeyGood48 ==
    [n |-> <<140, 235, 124, 61, 15, 113>>, e |-> <<3>>, p |-> 11540561,
     q |-> 13425953, dP |-> 7693707, dQ |-> 8950635, qInv |-> 1289134]
KeyGood47 ==
    [n |-> <<84, 143, 7, 59, 98, 235>>, e |-> <<1, 0, 1>>, p |-> 10920869,
     q |-> 8513359, dP |-> 9092697, dQ |-> 7224215, qInv |-> 6643213]
KeyGood32 ==
    [n |-> <<152, 39, 251, 97>>, e |-> <<1, 0, 1>>, p |-> 40993, q |-> 62273,
     dP |-> 37889, dQ |-> 19969, qInv |-> 34950]
KeyTop28 ==
    [n |-> <<11, 183, 105, 53>>, e |-> <<3>>, p |-> 13883, q |-> 14159,
     dP |-> 9255, dQ |-> 9439, qInv |-> 6690]

KeyPairs == {KeyGood48, KeyGood47, KeyGood32, KeyTop28}

\* DER: a tag, a short-form length and the contents
Tlv(tag, body) == <<tag, Len(body)>> \o body

\* the contents of a non-negative INTEGER
IntegerBody(os) == IF os[1] >= 128 THEN <<0>> \o os ELSE os

\* 1.2.840.113549.1.1.1 (rsaEncryption) and 1.2.840.113549.1.1.7 (RSAES-OAEP)
OidRsa == <<42, 134, 72, 134, 247, 13, 1, 1, 1>>
OidOther == <<42, 134, 72, 134, 247, 13, 1, 1, 7>>
\* 1.2.840.4295080845.1.1.1: its third arc is 2^32 + 113549
OidWide == <<42, 134, 72, 144, 128, 128, 134, 247, 13, 1, 1, 1>>

\* a SubjectPublicKeyInfo by its tags and the encodings of its leaves
SpkiShape(outer, alg, algKids, bit, unused, inner, innerKids) ==
    [outer |-> outer, alg |-> alg, algKids |-> algKids, bit |-> bit,
     unused |-> unused, inner |-> inner, innerKids |-> innerKids]

\* the SubjectPublicKeyInfo of an RSA public key, as RFC 8017 and the
\* test's PUBLIC_KEY have it: AlgorithmIdentifier { OID, NULL }
SpkiOf(kp) ==
    SpkiShape(48, 48, <<Tlv(6, OidRsa), Tlv(5, <<>>)>>, 3, 0, 48,
              <<Tlv(2, IntegerBody(kp.n)), Tlv(2, IntegerBody(kp.e))>>)

DerOf(sh) ==
    Tlv(sh.outer,
        Tlv(sh.alg, Flatten(sh.algKids))
        \o Tlv(sh.bit, <<sh.unused>> \o Tlv(sh.inner, Flatten(sh.innerKids))))

Base64Char(v) ==
    IF v < 26 THEN 65 + v ELSE IF v < 52 THEN 71 + v
    ELSE IF v < 62 THEN v - 4 ELSE IF v = 62 THEN 43 ELSE 47

\* btoa
encode64(os) ==
    LET group(g) ==
            LET b(i) == IF 3 * g + i <= Len(os) THEN os[3 * g + i] ELSE 0
                have == Len(os) - 3 * g
                v == b(1) * 65536 + b(2) * 256 + b(3)
            IN <<Base64Char(v \div 262144), Base64Char((v \div 4096) % 64),
                 IF have >= 2 THEN Base64Char((v \div 64) % 64) ELSE 61,
                 IF have >= 3 THEN Base64Char(v % 64) ELSE 61>>
    IN Flatten([g \in 1..((Len(os) + 2) \div 3) |-> group(g - 1)])

\* "PUBLIC KEY" and "PRIVATE KEY"
LabelPublic == <<80, 85, 66, 76, 73, 67, 32, 75, 69, 89>>
LabelPrivate == <<80, 82, 73, 86, 65, 84, 69, 32, 75, 69, 89>>

\* the PEM armor around a body
Armor(begin, end, body) ==
    LitBegin \o begin \o LitDashes \o <<10>> \o body \o <<10>>
    \o LitEnd \o end \o LitDashes

PemOf(der) == Armor(LabelPublic, LabelPublic, encode64(der))

(***************************************************************************)
(* tests/rsa.test.ts: decrypt.  The test decrypts with Web Crypto; this is *)
(* RSAES-OAEP-DECRYPT of RFC 8017 with the empty label, over the private   *)
(* key of a key pair, by the Chinese remainder theorem on p and q.         *)
(***************************************************************************)
\* the number of significant bits of the octets os
RefBitLen(os) ==
    LET nz == {i \in 1..Len(os) : os[i] # 0}
        top == os[Min(nz)]
    IN IF nz = {} THEN 0
       ELSE 8 * (Len(os) - Min(nz)) + Max({b \in 1..8 : top \div (2 ^ (b - 1)) > 0})

\* a * b mod m for a, b < m < 2^28, two bits of b at a time
RefMulMod(a, b, m) ==
    LET body(r, i) == (((r * 4) % m) + ((a * ((b \div (4 ^ (13 - i))) % 4)) % m)) % m
    IN For(body, 0, 0, 13)

\* a^d mod m, d < 2^28
RefPowMod(a, d, m) ==
    LET body(r, i) ==
            LET sq == RefMulMod(r, r, m)
            IN IF (d \div (2 ^ (27 - i))) % 2 = 1 THEN RefMulMod(sq, a, m) ELSE sq
    IN For(body, 1 % m, 0, 27)

\* the octets os as an integer modulo m < 2^28
RefMod(os, m) ==
    LET body(r, i) ==
            (((((((((r * 4) % m) * 4) % m) * 4) % m) * 4) % m) + os[i]) % m
    IN For(body, 0, 1, Len(os))

\* os < n as integers, both of one length
RefLess(os, n) ==
    \E i \in 1..Len(os) : os[i] < n[i] /\ \A j \in 1..(i - 1) : os[j] = n[j]

\* octet i of x < 2^28, the least significant first
RefOctet(x, i) == IF i < 0 \/ i > 3 THEN 0 ELSE (x \div (256 ^ i)) % 256

\* h * q + m2 as k octets, for h, q, m2 < 2^28 and a sum below 2^(8k)
RefCombine(h, q, m2, k) ==
    LET body(s, i) ==
            LET v == RefOctet(h, 0) * RefOctet(q, i) + RefOctet(h, 1) * RefOctet(q, i - 1)
                     + RefOctet(h, 2) * RefOctet(q, i - 2)
                     + RefOctet(h, 3) * RefOctet(q, i - 3) + RefOctet(m2, i) + s.c
            IN [c |-> v \div 256, os |-> <<v % 256>> \o s.os]
        s1 == For(body, [c |-> 0, os |-> <<>>], 0, 7)
    IN SubSeq(s1.os, 9 - k, 8)

\* H(s) of the hash of digest length hLen
RefHash(s, hLen) == getBytes(HashDigest(HashUpdate(HashCreate(hLen), s)), NaN).v

RefI2OSP4(i) == <<(i \div 16777216) % 256, (i \div 65536) % 256, (i \div 256) % 256, i % 256>>

RefMgf1(seed, maskLen, hLen) ==
    LET blocks == (maskLen + hLen - 1) \div hLen
    IN SubSeq(Flatten([i \in 1..blocks |-> RefHash(seed \o RefI2OSP4(i - 1), hLen)]),
              1, maskLen)

RefXor(a, b) == [i \in 1..Len(a) |-> Xor(a[i], b[i])]

\* [st, m]: st is "ok" or "decryption error"
RefOaepDecode(em, k, hLen) ==
    LET maskedSeed == SubSeq(em, 2, hLen + 1)
        maskedDB == SubSeq(em, hLen + 2, k)
        seed == RefXor(maskedSeed, RefMgf1(maskedDB, hLen, hLen))
        db == RefXor(maskedDB, RefMgf1(seed, k - hLen - 1, hLen))
        ones == {i \in (hLen + 1)..Len(db) : db[i] # 0}
        sep == Min(ones)
        fail == [st |-> "decryption error", m |-> <<>>]
    IN IF k < 2 * hLen + 2 \/ em[1] # 0 THEN fail
       ELSE IF SubSeq(db, 1, hLen) # RefHash(<<>>, hLen) THEN fail
       ELSE IF ones = {} \/ db[sep] # 1 THEN fail
       ELSE [st |-> "ok", m |-> SubSeq(db, sep + 1, Len(db))]

\* RSAES-OAEP-DECRYPT(kp, c) with the hash of digest length hLen
RefDecrypt(kp, c, hLen) ==
    LET k == (RefBitLen(kp.n) + 7) \div 8
        m1 == RefPowMod(RefMod(c, kp.p), kp.dP, kp.p)
        m2 == RefPowMod(RefMod(c, kp.q), kp.dQ, kp.q)
        h == RefMulMod(kp.qInv, (m1 + kp.p - (m2 % kp.p)) % kp.p, kp.p)
        em == RefCombine(h, kp.q, m2, k)
    IN IF Len(c) # k \/ (\E i \in 1..Len(c) : c[i] < 0 \/ c[i] > 255)
          \/ ~RefLess(c, kp.n)
       THEN [st |-> "decryption error", m |-> <<>>]
       ELSE CASE Strict(<<m1, m2, h>>) /\ Strict(em) -> RefOaepDecode(em, k, hLen)

\* TextEncoder: the UTF-8 octets of a string of BMP characters
Utf8(s) ==
    Flatten([i \in 1..Len(s) |->
        IF s[i] < 128 THEN <<s[i]>>
        ELSE IF s[i] < 2048 THEN <<192 + (s[i] \div 64), 128 + (s[i] % 64)>>
        ELSE <<224 + (s[i] \div 4096), 128 + ((s[i] \div 64) % 64), 128 + (s[i] % 64)>>])

(***************************************************************************)
(* The inputs of the calls.                                                *)
(***************************************************************************)
Good == SpkiOf(KeyGood48)

\* SubjectPublicKeyInfo structures that differ from Good in one place
DerInputs ==
    {DerOf(SpkiOf(kp)) : kp \in KeyPairs} \cup
    {DerOf([Good EXCEPT !.outer = 49]),
     DerOf([Good EXCEPT !.alg = 49]),
     DerOf([Good EXCEPT !.algKids = <<Tlv(5, <<>>), Tlv(6, OidRsa)>>]),
     DerOf([Good EXCEPT !.algKids = <<Tlv(4, OidRsa), Tlv(5, <<>>)>>]),
     DerOf([Good EXCEPT !.algKids = <<Tlv(6, OidOther), Tlv(5, <<>>)>>]),
     DerOf([Good EXCEPT !.algKids = <<Tlv(6, OidWide), Tlv(5, <<>>)>>]),
     DerOf([Good EXCEPT !.algKids = <<Tlv(6, OidRsa)>>]),
     DerOf([Good EXCEPT !.algKids = <<Tlv(6, OidRsa), Tlv(5, <<>>), Tlv(5, <<>>)>>]),
     DerOf([Good EXCEPT !.bit = 4]),
     DerOf([Good EXCEPT !.unused = 1]),
     DerOf([Good EXCEPT !.inner = 49]),
     DerOf([Good EXCEPT !.innerKids = <<Tlv(2, KeyGood48.n), Tlv(4, <<3>>)>>]),
     DerOf([Good EXCEPT !.innerKids = <<Tlv(2, KeyGood48.n)>>]),
     SubSeq(DerOf(Good), 1, Len(DerOf(Good)) - 3)}

PemInputs ==
    {PemOf(der) : der \in DerInputs} \cup
    {Tail(PemOf(DerOf(Good))),
     Armor(LabelPublic, LabelPrivate, encode64(DerOf(Good))),
     encode64(DerOf(Good))}

\* the strings to encrypt: '', 'A', 'AB', 'ABC', U+00E9 and U+0141
DataInputs == {<<>>, <<65>>, <<65, 66>>, <<65, 66, 67>>, <<233>>, <<321>>}

\* a hash state with the property or method `member` deleted
Without(md, member) ==
    IF member = "digestLength" THEN [md EXCEPT !.digestLength = NaN]
    ELSE [md EXCEPT !.has = @ \ {member}]

HashMembers == {"digestLength"} \cup HashMethods

\* {}
EmptyObject == [HashCreate(1) EXCEPT !.digestLength = NaN, !.has = {}]

\* the supported hashes: fresh states of the engines
SupportedHashes == {HashCreate(1), HashCreate(2)}

\* objects that are no hash: one member is missing, or all
BrokenHashes == {Without(HashCreate(1), m) : m \in HashMembers} \cup {EmptyObject}

\* what Math.random yields during a call
RandomInputs == {[s |-> 5, x |-> 9], [s |-> 65535, x |-> 255]}

\* the calls of encrypt: <<data, md, rnd>>
EncryptInputs ==
    (DataInputs \X SupportedHashes \X {[s |-> 5, x |-> 9]})
    \cup ({<<65>>} \X BrokenHashes \X {[s |-> 5, x |-> 9]})
    \cup ({<<65, 66>>} \X {HashCreate(1)} \X RandomInputs)

(***************************************************************************)
(* The program: a caller imports keys and encrypts with the last key       *)
(* imported.  key is that key, ctx the context of the process-wide         *)
(* generator `random`, call the last call with its arguments and what it   *)
(* returned or threw, calls the number of calls made.  A call that loops   *)
(* forever leaves call.st = "loop": nothing follows it.                    *)
(***************************************************************************)
VARIABLES key, ctx, call, calls, buf

vars == <<key, ctx, call, calls, buf>>

MaxCalls == 2

Init ==
    /\ key = [has |-> FALSE, n |-> nbi, e |-> nbi]
    /\ ctx = createPRNGContext
    /\ call = [op |-> "none", st |-> "ok"]
    /\ calls = 0
    /\ buf = ByteStringBuffer(<<>>)

\* key = importPublicKey(pem)
Import(pem) ==
    /\ calls < MaxCalls
    /\ call.st # "loop"
    /\ \E r \in {Call("importPublicKey", <<pem>>)} :
          /\ key' = IF r.st = "ok" THEN [has |-> TRUE, n |-> r.key.n, e |-> r.key.e]
                    ELSE key
          /\ call' = [op |-> "import", pem |-> pem, st |-> r.st, msg |-> r.msg]
    /\ calls' = calls + 1
    /\ UNCHANGED <<ctx, buf>>

\* the number of bits of the limb x, 0 < x < DV
TopBits(x) == Max({b \in 1..DB : x \div Pow2(b - 1) > 0})

\* x < n of two clamped numbers with limbs in 0..DM
Below(x, n) ==
    \/ x.t < n.t
    \/ /\ x.t = n.t
       /\ \E i \in 1..n.t : /\ x.d[i] < n.d[i]
                             /\ \A j \in (i + 1)..n.t : x.d[j] = n.d[j]

\* The limbs of divRemTo stay int32 values, which are what the model holds,
\* when nbits measures the top limb of the modulus or the encoded message
\* is a number below the modulus.  Beyond that they are doubles up to 2^53
\* and further, rounded: the model makes no such call.
Tracked(n, message, md, rnd) ==
    \E e \in {Call("encode_rsa_oaep", <<n, message, md, ctx, rnd>>)} :
       \/ Call("nbits", <<Rd(n.d, n.t - 1)>>) = TopBits(Rd(n.d, n.t - 1))
       \/ e.st # "ok"
       \/ Below(Call("fromString",
                     <<Call("toHex", <<putBytes(ByteStringBuffer(<<>>), e.em)>>)>>), n)

\* key.encrypt(data, md)
Encrypt(data, md, rnd) ==
    /\ calls < MaxCalls
    /\ call.st # "loop"
    /\ key.has
    /\ Tracked(key.n, data, md, rnd)
    /\ \E r \in {Call("encrypt", <<key, data, md, ctx, rnd>>)} :
          /\ call' = [op |-> "encrypt", data |-> data, md |-> md, rnd |-> rnd,
                      st |-> r.st, v |-> r.v, em |-> r.em, seed |-> r.seed]
          /\ ctx' = r.ctx
    /\ calls' = calls + 1
    /\ UNCHANGED <<key, buf>>

Next ==
    \/ \E pem \in PemInputs : Import(pem)
    \/ \E inp \in EncryptInputs : Encrypt(inp[1], inp[2], inp[3])

Spec == Init /\ [][Next]_vars

(***************************************************************************)
(* What the claims speak of.                                               *)
(***************************************************************************)
\* the key pair of tests/rsa.test.ts whose public key is key
KeyPairOf(k) ==
    CHOOSE kp \in KeyPairs :
        fromString(toHex(putBytes(ByteStringBuffer(<<>>), kp.n))) = k.n

\* k = ceil(bitlen(n) / 8), bitlen the position of the highest set bit
TrueK(kp) == (RefBitLen(kp.n) + 7) \div 8

\* an octet string
IsOctets(s) == \A i \in 1..Len(s) : s[i] >= 0 /\ s[i] <= 255

\* the last call was encrypt(data, H) with a supported hash H
Encrypted == call.op = "encrypt" /\ call.md \in SupportedHashes

\* k - 2 * hLen - 2 of the last call
MaxMessage == TrueK(KeyPairOf(key)) - 2 * call.md.width - 2

\* C1: whenever encrypt was called with a supported hash and a plaintext of
\* 0 to k - 2 * hLen - 2 octets, it returned a ciphertext that the
\* reference decryptor, with the private key of the pair, the same hash and
\* the empty label, turns back into the plaintext.
C1_RoundTrip ==
    (Encrypted /\ IsOctets(call.data) /\ Len(call.data) <= MaxMessage)
    => /\ call.st = "ok"
       /\ RefDecrypt(KeyPairOf(key), call.v, call.md.width)
          = [st |-> "ok", m |-> call.data]

\* C2: whenever encrypt returned for a supported hash and a plaintext within
\* the length bound, the ciphertext has k = ceil(bitlen(n) / 8) octets, for
\* the true bit length of n.
C2_CiphertextLength ==
    (Encrypted /\ IsOctets(call.data) /\ Len(call.data) <= MaxMessage)
    => call.st = "ok" /\ Len(call.v) = TrueK(KeyPairOf(key))

\* C3: encrypt succeeds for a plaintext of k - 2 * hLen - 2 octets, and
\* fails with MessageTooLong, with no ciphertext, for every longer one.
C3_LengthBound ==
    Encrypted
    => /\ Len(call.data) = MaxMessage => call.st = "ok"
       /\ Len(call.data) > MaxMessage
          => call.st = "MessageTooLong" /\ call.v = <<>>

\* C4: encrypt with an object that lacks one of digestLength, start, update
\* and digest ({} lacks all) fails: no ciphertext is returned and, no encoded
\* message having been built, no modular exponentiation was made.
C4_HashShape ==
    (call.op = "encrypt" /\ call.md \in BrokenHashes)
    => call.st # "ok" /\ call.v = <<>> /\ call.em = <<>>

\* the input holds -----BEGIN L----- and, after it, -----END L----- with
\* the same label L
ArmoredBlock(pem) ==
    \E b \in {i \in 0..Len(pem) : LitAt(pem, i, LitBegin)} :
    \E e \in {i \in 0..Len(pem) : LitAt(pem, i, LitEnd)} :
    \E l \in 1..Len(pem) :
        /\ LitAt(pem, b + 11 + l, LitDashes)
        /\ e >= b + 11 + l + 5
        /\ LitAt(pem, e + 9, SubSeq(pem, b + 12, b + 11 + l) \o LitDashes)

\* C5: whenever importPublicKey was called on an input with no armored
\* block whose END label is its BEGIN label, it failed with the invalid PEM
\* error, and a first call that failed so left no key.
C5_ArmorRejected ==
    (call.op = "import" /\ ~ArmoredBlock(call.pem))
    => /\ call.st = "Error"
       /\ call.msg = "Invalid PEM formatted message."
       /\ calls = 1 => ~key.has

\* an import of a key's PEM whose END label differs from the BEGIN label
\* has failed
C5_Witness ==
    /\ call.op = "import"
    /\ call.pem = Armor(LabelPublic, LabelPrivate, encode64(DerOf(Good)))
    /\ ~ArmoredBlock(call.pem)
    /\ call.st = "Error"

\* the tree fromDer parses out of the body of the armored block of pem
ParsedTree(pem) == fromDer(pemDecode(pem).v)

\* a node of the universal class with this type and constructed flag
NodeIs(o, type, constructed) ==
    o.tagClass = ClassUNIVERSAL /\ o.type = type /\ o.constructed = constructed

\* a node with n children
HasChildren(o, n) == o.arr /\ Len(o.value) = n

\* OUTER SEQUENCE { SEQUENCE { NULL, OID },
\*                  BIT STRING { SEQUENCE { INTEGER, INTEGER } } }
MatchesTemplate(o) ==
    /\ NodeIs(o, TypeSEQUENCE, TRUE) /\ HasChildren(o, 2)
    /\ NodeIs(o.value[1], TypeSEQUENCE, TRUE) /\ HasChildren(o.value[1], 2)
    /\ NodeIs(o.value[1].value[1], TypeNULL, FALSE)
    /\ NodeIs(o.value[1].value[2], TypeOID, FALSE)
    /\ NodeIs(o.value[2], TypeBITSTRING, FALSE) /\ HasChildren(o.value[2], 1)
    /\ NodeIs(o.value[2].value[1], TypeSEQUENCE, TRUE)
    /\ HasChildren(o.value[2].value[1], 2)
    /\ NodeIs(o.value[2].value[1].value[1], TypeINTEGER, FALSE)
    /\ NodeIs(o.value[2].value[1].value[2], TypeINTEGER, FALSE)

\* the last call was importPublicKey on an armored input whose body parsed
Parsed ==
    /\ call.op = "import"
    /\ pemDecode(call.pem).st = "ok"
    /\ ParsedTree(call.pem).st = "ok"

\* the messages of the errors that say the key is invalid
InvalidKey ==
    {"Invalid RSAPublicKey.", "Cannot read public key. Unknown OID.",
     "ASN.1 object does not contain an RSAPublicKey."}

\* C6: whenever importPublicKey was called on a DER input whose parsed tree
\* differs from the template in a node's class, type or constructed flag or
\* in a child count, at any depth, it failed with an invalid key error; it
\* returned a key only for a tree that matches the template in every node.
C6_Structure ==
    (Parsed /\ ~MatchesTemplate(ParsedTree(call.pem).obj))
    => call.st = "Error" /\ call.msg \in InvalidKey

\* the algorithm identifier of a SubjectPublicKeyInfo of the usual shape,
\* SEQUENCE { SEQUENCE { ... }, BIT STRING }
AlgorithmIdentifier(o) == o.value[1]

\* the contents of the OBJECT IDENTIFIER nodes of the node alg
OidsOf(alg) ==
    {alg.value[i].value : i \in {i \in 1..Len(alg.value) :
                                   NodeIs(alg.value[i], TypeOID, FALSE)}}

\* C7: whenever importPublicKey returned a key, the AlgorithmIdentifier of
\* the input has an OBJECT IDENTIFIER node and the OID it carries is
\* 1.2.840.113549.1.1.1: every other OID is rejected.
C7_OidEnforced ==
    (Parsed /\ call.st = "ok")
    => OidsOf(AlgorithmIdentifier(ParsedTree(call.pem).obj)) = {OidRsa}

\* the octets a string stands for when each character is the low 8 bits of
\* its code
Low8(s) == [i \in 1..Len(s) |-> s[i] % 256]

\* C8: whenever encrypt returned for a supported hash and a plaintext of at
\* most k - 2 * hLen - 2 characters, the encoded message has exactly k
\* octets, each in 0..255, and encodes the low 8 bits of each character.
C8_OctetConvention ==
    (Encrypted /\ call.st = "ok" /\ Len(call.data) <= MaxMessage)
    => /\ Len(call.em) = TrueK(KeyPairOf(key))
       /\ IsOctets(call.em)
       /\ RefOaepDecode(call.em, TrueK(KeyPairOf(key)), call.md.width)
          = [st |-> "ok", m |-> Low8(call.data)]

\* C9: whenever encrypt was called with a supported hash on a string whose
\* UTF-8 encoding has at most k - 2 * hLen - 2 octets, decrypting what it
\* returned yields the UTF-8 encoding of the string, as decrypting the Web
\* Crypto encryption of new TextEncoder().encode(data) does.
C9_WebCrypto ==
    (Encrypted /\ Len(Utf8(call.data)) <= MaxMessage)
    => /\ call.st = "ok"
       /\ RefDecrypt(KeyPairOf(key), call.v, call.md.width)
          = [st |-> "ok", m |-> Utf8(call.data)]

(***************************************************************************)
(* ByteStringBuffer as a state machine: buf is one buffer, built by the    *)
(* constructor, and every step is one method call on it.  call records     *)
(* the method, its argument, the value returned, the buffer b0 the call    *)
(* found and prev, the call before it.                                     *)
(***************************************************************************)
\* the calls on one buffer that are followed
MaxBufferCalls == 3

\* a number 0 <= x < 2^32 as its two 16-bit halves <<hi, lo>>
Uint32Inputs ==
    {<<0, 0>>, <<0, 1>>, <<258, 772>>, <<32767, 65535>>, <<32768, 0>>,
     <<65535, 65535>>}

\* ToInt32(x) of a number 0 <= x < 2^32, which `i >> 24` applies to i
ToInt32(x) ==
    IF x[1] >= 32768 THEN (x[1] - 65536) * 65536 + x[2] ELSE x[1] * 65536 + x[2]

ByteInputs == {0, 65, 255, 321}

StringInputs == {<<>>, <<65>>, <<1, 2, 3, 4>>}

GetBytesCounts == {NaN, 0, 1, 5}

BytesCounts == {Undefined, 0, 1, 3}

GetIntWidths == {8, 16, 24, 32}

InitBuffer ==
    /\ key = [has |-> FALSE, n |-> nbi, e |-> nbi]
    /\ ctx = createPRNGContext
    /\ call = [op |-> "none", st |-> "ok"]
    /\ calls = 0
    /\ buf \in {ByteStringBuffer(s) : s \in StringInputs}

\* one method call that returns `this`: the buffer after it is b
Mutate(op, arg, b) ==
    /\ calls < MaxBufferCalls
    /\ buf' = b
    /\ call' = [op |-> op, arg |-> arg, v |-> NaN, b0 |-> buf, st |-> "ok",
                prev |-> call]
    /\ calls' = calls + 1
    /\ UNCHANGED <<key, ctx>>

\* one method call that returns the value r.v and leaves the buffer r.b
Read(op, arg, r) ==
    /\ calls < MaxBufferCalls
    /\ buf' = r.b
    /\ call' = [op |-> op, arg |-> arg, v |-> r.v, b0 |-> buf, st |-> "ok",
                prev |-> call]
    /\ calls' = calls + 1
    /\ UNCHANGED <<key, ctx>>

PutByte(b) == Mutate("putByte", b, putByte(buf, b))

PutBytes(s) == Mutate("putBytes", s, putBytes(buf, s))

PutInt32(x) == Mutate("putInt32", x, Call("putInt32", <<buf, ToInt32(x)>>))

GetByte == Read("getByte", NaN, getByte(buf))

GetInt32 == Read("getInt32", NaN, Call("getInt32", <<buf>>))

GetInt(n) == Read("getInt", n, Call("getInt", <<buf, n>>))

GetBytes(count) == Read("getBytes", count, Call("getBytes", <<buf, count>>))

Bytes(count) == Read("bytes", count, [v |-> bytes(buf, count), b |-> buf])

Compact == Mutate("compact", NaN, compact(buf))

Clear == Mutate("clear", NaN, clear(buf))

ToHex == Read("toHex", NaN, [v |-> Call("toHex", <<buf>>), b |-> buf])

ToArrayBuffer ==
    Read("toArrayBuffer", NaN, [v |-> Call("toArrayBuffer", <<buf>>), b |-> buf])

NextBuffer ==
    \/ \E b \in ByteInputs : PutByte(b)
    \/ \E s \in StringInputs : PutBytes(s)
    \/ \E x \in Uint32Inputs : PutInt32(x)
    \/ GetByte
    \/ GetInt32
    \/ \E n \in GetIntWidths : GetInt(n)
    \/ \E count \in GetBytesCounts : GetBytes(count)
    \/ \E count \in BytesCounts : Bytes(count)
    \/ Compact
    \/ Clear
    \/ ToHex
    \/ ToArrayBuffer

SpecBuffer == InitBuffer /\ [][NextBuffer]_vars

\* the octets of the buffer b from its read cursor on
Unread(b) == IF b.read >= Len(b.data) THEN <<>> ELSE SubSeq(b.data, b.read + 1, Len(b.data))

\* the runs data[j..] of the buffer b that start at or after its read cursor
RunsOf(b, n) ==
    {SubSeq(b.data, j, j + n - 1) : j \in {i \in (b.read + 1)..Len(b.data) : i + n - 1 <= Len(b.data)}}

\* the last call was getInt32(), next after a putInt32(x) on a buffer with
\* nothing left to read
ReadsBackInt32 ==
    /\ call.op = "getInt32"
    /\ call.prev.op = "putInt32"
    /\ length(call.prev.b0) = 0

\* C11: getInt32() after putInt32(x), 0 <= x < 2^32, on a buffer with nothing
\* else to read returns x, an unsigned value, and moves the read cursor by 4
C11_Int32RoundTrip ==
    ReadsBackInt32 =>
        /\ call.v \div 65536 = call.prev.arg[1]
        /\ call.v % 65536 = call.prev.arg[2]
        /\ buf.read = call.b0.read + 4

\* C12: getBytes() without a count returns the unread octets data[r..] and
\* leaves the buffer empty; what getByte, getBytes, bytes, toHex and
\* toArrayBuffer return holds no octet stored below the read cursor r
C12_GetBytesAll ==
    /\ (call.op = "getBytes" /\ call.arg = NaN) =>
            /\ call.v = Unread(call.b0)
            /\ length(buf) = 0
    /\ call.op = "getByte" =>
            \/ call.v = NaN
            \/ <<call.v>> \in RunsOf(call.b0, 1)
    /\ call.op \in {"getBytes", "bytes"} =>
            \/ call.v = <<>>
            \/ call.v \in RunsOf(call.b0, Len(call.v))
    /\ call.op = "toHex" =>
            \/ call.v = <<>>
            \/ \E n \in 1..Len(call.b0.data) : \E run \in RunsOf(call.b0, n) :
                  call.v = toHex(ByteStringBuffer(run))
    /\ call.op = "toArrayBuffer" =>
            \A i \in 1..Len(call.v) :
                \/ call.v[i] = 0
                \/ \E run \in RunsOf(call.b0, 1) : call.v[i] = run[1] % 256

\* C13: the read cursor r stays within 0 <= r <= len, so that length() is
\* never negative
C13_Cursor ==
    /\ 0 <= buf.read
    /\ buf.read <= Len(buf.data)
    /\ length(buf) >= 0

(***************************************************************************)
(* jsbn.ts on its own: modPow, bitLength and the Montgomery form.  call is *)
(* the last call: its operation, its arguments, what it returned in v.    *)
(* A Montgomery calculation is followed as modPow runs it: convert, then   *)
(* the squarings and multiplications of the loops on r, r2 and g[1], then  *)
(* revert.                                                                 *)
(***************************************************************************)
\* the calls one behaviour makes
MaxBigCalls == 3

\* odd moduli of one limb: of 4 bits, of 5 bits and of 17 bits
Moduli == {9, 15, 17, 65537}

Bases == {0, 1, 3, 8}

Exponents == {1, 3, 17}

\* the limbs a number ends with, and the limbs below the top one
TopLimbs == {1, 2, 3, 15, 16, 17, 255, 256, 65535, 65536, 1048575, 1048576, 268435455}

LowLimbs == {<<>>, <<0>>, <<5, 0>>}

\* the top limb of 65537 has 17 bits, which nbits counts; an exponent of 17
\* bits is followed to its end by ModPowFuel
LongExponents == {<<a, 65537, m>> : a \in Bases, m \in {9, 15, 65537}}

ModPowInputs == {<<a, e, m>> : a \in Bases, e \in Exponents, m \in Moduli} \cup LongExponents

InitBig ==
    /\ key = [has |-> FALSE, n |-> nbi, e |-> nbi]
    /\ ctx = createPRNGContext
    /\ call = [op |-> "none", st |-> "ok"]
    /\ calls = 0
    /\ buf = ByteStringBuffer(<<>>)

\* a.modPow(e, m)
ModPow(a, e, m) ==
    /\ calls < MaxBigCalls
    /\ \E r \in {Call("modPow", <<nbv(a), nbv(e), nbv(m)>>)} :
          call' = [op |-> "modPow", a |-> a, e |-> e, m |-> m, st |-> r.st, v |-> r.v]
    /\ calls' = calls + 1
    /\ UNCHANGED <<key, ctx, buf>>

\* x.bitLength() of the number with the limbs low and, on top, the limb top
BitLength(low, top) ==
    /\ calls < MaxBigCalls
    /\ \E r \in {Call("bitLength", <<[t |-> Len(low) + 1, d |-> Append(low, top)]>>)} :
          call' = [op |-> "bitLength", t |-> Len(low) + 1, top |-> top, st |-> "ok", v |-> r]
    /\ calls' = calls + 1
    /\ UNCHANGED <<key, ctx, buf>>

\* z = new Montgomery(m); g[1] = z.convert(x); r is what g[1].copyTo(r)
\* leaves
Convert(x, m) ==
    /\ calls < MaxBigCalls
    /\ x < m
    /\ \E g \in {Call("convert", <<Call("Montgomery", <<nbv(m)>>), nbv(x)>>)} :
          call' = [op |-> "convert", x |-> x, m |-> m, st |-> "ok", v |-> g,
                   g |-> g, r |-> Call("copyTo", <<g, nbv(1)>>), r2 |-> nbi]
    /\ calls' = calls + 1
    /\ UNCHANGED <<key, ctx, buf>>

\* the last call left a number in Montgomery form
InMontgomery == call.op \in {"convert", "sqrTo", "mulTo"}

\* the inner loop: z.sqrTo(r, r2), then r and r2 change places
Square ==
    /\ calls < MaxBigCalls
    /\ InMontgomery
    /\ \E v \in {Call("sqrTo", <<Call("Montgomery", <<nbv(call.m)>>), call.r, call.r2>>)} :
          call' = [call EXCEPT !.op = "sqrTo", !.v = v, !.r = v, !.r2 = call.r]
    /\ calls' = calls + 1
    /\ UNCHANGED <<key, ctx, buf>>

\* the outer loop: z.sqrTo(r, r2), then z.mulTo(r2, g[1], r)
SquareMultiply ==
    /\ calls < MaxBigCalls
    /\ InMontgomery
    /\ \E r2 \in {Call("sqrTo", <<Call("Montgomery", <<nbv(call.m)>>), call.r, call.r2>>)} :
          \E v \in {Call("mulTo", <<Call("Montgomery", <<nbv(call.m)>>), r2, call.g, call.r>>)} :
             call' = [call EXCEPT !.op = "mulTo", !.v = v, !.r = v, !.r2 = r2]
    /\ calls' = calls + 1
    /\ UNCHANGED <<key, ctx, buf>>

\* z.revert(r)
Revert ==
    /\ calls < MaxBigCalls
    /\ InMontgomery
    /\ \E v \in {Call("revert", <<Call("Montgomery", <<nbv(call.m)>>), call.r>>)} :
          call' = [call EXCEPT !.op = "revert", !.v = v]
    /\ calls' = calls + 1
    /\ UNCHANGED <<key, ctx, buf>>

NextBig ==
    \/ \E i \in ModPowInputs : ModPow(i[1], i[2], i[3])
    \/ \E low \in LowLimbs, top \in TopLimbs : BitLength(low, top)
    \/ \E x \in Bases, m \in Moduli : Convert(x, m)
    \/ Square
    \/ SquareMultiply
    \/ Revert

SpecBig == InitBig /\ [][NextBig]_vars

\* the number x is the integer n, 0 <= n < DV, in clamped form
IsInt(x, n) == IF n = 0 THEN x.t = 0 ELSE x.t = 1 /\ Rd(x.d, 0) = n

\* every limb of x is in 0..DM
LimbsInRange(x) == \A i \in 1..x.t : Rd(x.d, i - 1) \in 0..DM

\* C15: a.modPow(e, m) of an odd modulus m, a base 0 <= a < m and an
\* exponent e >= 1 raises no error and returns a^e mod m
C15_ModPowCorrect ==
    call.op = "modPow" =>
        /\ call.st = "ok"
        /\ IsInt(call.v, RefPowMod(call.a, call.e, call.m))

\* C16: bitLength() of a clamped positive number of t limbs is 28 * (t - 1)
\* plus the number of significant bits of its top limb
C16_BitLength ==
    call.op = "bitLength" => call.v = DB * (call.t - 1) + TopBits(call.top)

\* C17: what Montgomery.reduce produces through sqrTo, mulTo and revert as
\* modPow runs lies in [0, m), every limb of it in [0, 2^28)
C17_ReduceRange ==
    /\ call.op \in {"sqrTo", "mulTo", "revert"} =>
            /\ Below(call.v, nbv(call.m))
            /\ LimbsInRange(call.v)
    /\ (call.op = "modPow" /\ call.st = "ok") =>
            /\ Below(call.v, nbv(call.m))
            /\ LimbsInRange(call.v)

\* C18: Montgomery.convert(x) of an odd modulus m of t limbs and 0 <= x < m
\* is x * 2^(28 * t) mod m
C18_Convert ==
    call.op = "convert" =>
        IsInt(call.v, RefMulMod(call.x, Pow2(DB) % call.m, call.m))

(***************************************************************************)
(* asn1.ts on its own: fromDer of an octet string.  call holds the octets, *)
(* the outcome st, the object and the buffer as _fromDer left it.          *)
(***************************************************************************)
\* the calls one behaviour makes
MaxDerCalls == 1

\* identifier octets: SEQUENCE, BIT STRING, constructed BIT STRING, INTEGER,
\* NULL
DerTags == {48, 3, 35, 2, 5}

\* length octets: short forms, and the long form of one octet, which the
\* first octet of the contents then is
DerLengths == {0, 1, 2, 3, 4, 5, 8, 129}

\* contents octets, with what follows the object: INTEGERs, a BIT STRING
\* with unused bits, one that holds an INTEGER, a SEQUENCE, and cut ends
DerContents ==
    {<<>>, <<0>>, <<2, 1>>, <<2, 1, 5>>, <<2, 1, 5, 2, 1, 7>>,
     <<1, 170, 187, 2, 1, 5>>, <<0, 2, 1, 5>>, <<0, 2, 1, 5, 7, 2, 1, 9>>,
     <<3, 3, 1, 170, 187, 2, 1, 5>>, <<3, 4, 0, 2, 1, 5, 2, 1, 9>>,
     <<48, 3, 2, 1, 5, 5, 0>>, <<5, 2, 1, 5, 7, 9>>}

DerOctets == {<<tag, len>> \o c : tag \in DerTags, len \in DerLengths, c \in DerContents}

InitDer ==
    /\ key = [has |-> FALSE, n |-> nbi, e |-> nbi]
    /\ ctx = createPRNGContext
    /\ call = [op |-> "none", st |-> "ok"]
    /\ calls = 0
    /\ buf = ByteStringBuffer(<<>>)

\* fromDer(der); bytes is the buffer _fromDer read from
FromDer(der) ==
    /\ calls < MaxDerCalls
    /\ \E r \in {Call("fromDer", <<der>>)} :
          call' = [op |-> "fromDer", der |-> der, st |-> r.st, obj |-> r.obj, bytes |-> r.bytes]
    /\ calls' = calls + 1
    /\ UNCHANGED <<key, ctx, buf>>

NextDer == \E der \in DerOctets : FromDer(der)

SpecDer == InitDer /\ [][NextDer]_vars

\* the octets der are a primitive BIT STRING of a short length L > 1 with
\* all its L contents octets there, and fromDer made no composed value of it
BitStringFallsBack ==
    /\ call.op = "fromDer"
    /\ call.st = "ok"
    /\ call.der[1] = TypeBITSTRING
    /\ call.der[2] > 1
    /\ call.der[2] < 128
    /\ Len(call.der) >= 2 + call.der[2]
    /\ ~call.obj.arr

\* C19: fromDer ends on every octet string, one whose constructed object
\* declares more octets than remain included
C19_Terminates == call.op = "fromDer" => call.st # "loop"

\* C20: a primitive BIT STRING of length L > 1 that is not decoded as a
\* composed value has its L contents octets as its value, equal to
\* bitStringContents, and leaves the read cursor L octets after the start
\* of the contents
C20_BitStringFallback ==
    BitStringFallsBack =>
        /\ call.obj.value = SubSeq(call.der, 3, 2 + call.der[2])
        /\ call.obj.value = call.obj.bitStringContents
        /\ call.bytes.read = 2 + call.der[2]

\* C30: toArrayBuffer() of a buffer with read cursor r > 0 has length()
\* elements, the i-th of them the unread octet data[r + i]
C30_ToArrayBufferUnread ==
    (call.op = "toArrayBuffer" /\ call.b0.read > 0 /\ length(call.b0) >= 0) =>
        /\ Len(call.v) = length(call.b0)
        /\ \A i \in 0..(length(call.b0) - 1) :
              call.v[i + 1] = Rd(call.b0.data, call.b0.read + i) % 256

(***************************************************************************)
(* pem.ts on its own: pemDecode of a string.  call holds the string, the   *)
(* outcome st and the decoded body v.                                      *)
(***************************************************************************)
\* the calls one behaviour makes
MaxPemCalls == 1

\* what stands before the BEGIN line: nothing, white space, text
PemPrefixes == {<<>>, <<32>>, <<13, 10>>, <<120>>, <<35, 32, 107, 101, 121, 10>>}

\* what follows the END line: nothing, a line end, a second armored block
PemSuffixes ==
    {<<>>, <<10>>, <<10>> \o Armor(LabelPublic, LabelPublic, <<81, 81, 61, 61>>)}

\* bodies: 'QUJD', 'QUI=' and, not base64, 'Q*JD'
PemBodies == {<<81, 85, 74, 68>>, <<81, 85, 73, 61>>, <<81, 42, 74, 68>>}

PemLabels == {LabelPublic, LabelPrivate}

PemStrings ==
    {p \o Armor(b, e, body) \o s :
        p \in PemPrefixes, b \in PemLabels, e \in PemLabels, body \in PemBodies,
        s \in PemSuffixes}

InitPem ==
    /\ key = [has |-> FALSE, n |-> nbi, e |-> nbi]
    /\ ctx = createPRNGContext
    /\ call = [op |-> "none", st |-> "ok"]
    /\ calls = 0
    /\ buf = ByteStringBuffer(<<>>)

\* pemDecode(pem)
PemDecode(pem) ==
    /\ calls < MaxPemCalls
    /\ \E r \in {Call("pemDecode", <<pem>>)} :
          call' = [op |-> "pemDecode", pem |-> pem, st |-> r.st, v |-> r.v]
    /\ calls' = calls + 1
    /\ UNCHANGED <<key, ctx, buf>>

NextPem == \E pem \in PemStrings : PemDecode(pem)

SpecPem == InitPem /\ [][NextPem]_vars

\* pem is, after white space or none, -----BEGIN and what follows
StartsWithBegin(pem) ==
    \E i \in 0..Len(pem) :
        /\ \A k \in 1..i : IsSpace(pem[k])
        /\ LitAt(pem, i, LitBegin)

\* the places of -----BEGIN in pem
BeginsOf(pem) == {i \in 0..Len(pem) : LitAt(pem, i, LitBegin)}

\* C21: pemDecode accepts only a string that starts, after white space or
\* none, with the BEGIN line and holds one armored block; with other text
\* before the BEGIN line it fails with the invalid PEM error
C21_PemAnchored ==
    call.op = "pemDecode" =>
        /\ ~StartsWithBegin(call.pem) => call.st = "InvalidPEM"
        /\ call.st = "ok" => Cardinality(BeginsOf(call.pem)) = 1

(***************************************************************************)
(* prng.ts on its own: collect and generateSync on the context ctx.  call  *)
(* holds the call, the context ctx0 it found and what it returned.         *)
(***************************************************************************)
\* the calls one behaviour makes
MaxPrngCalls == 3

\* counts of generateSync: none, one block, two blocks, three blocks
GenerateCounts == {0, 1, 17, 33}

\* the strings collected: '', three characters, and forty, more than there
\* are pools
CollectInputs == {<<>>, <<1, 2, 3>>, ArrayOf([i \in 1..40 |-> 64 + i], 40)}

InitPrng ==
    /\ key = [has |-> FALSE, n |-> nbi, e |-> nbi]
    /\ ctx = createPRNGContext
    /\ call = [op |-> "none", st |-> "ok"]
    /\ calls = 0
    /\ buf = ByteStringBuffer(<<>>)

\* ctx.generateSync(count)
GenerateSync(count, rnd) ==
    /\ calls < MaxPrngCalls
    /\ \E r \in {Call("generateSync", <<ctx, count, rnd>>)} :
          /\ ctx' = r.ctx
          /\ call' = [op |-> "generateSync", arg |-> count, rnd |-> rnd, ctx0 |-> ctx,
                      st |-> "ok", v |-> r.v]
    /\ calls' = calls + 1
    /\ UNCHANGED <<key, buf>>

\* ctx.collect(bytes)
Collect(bs) ==
    /\ calls < MaxPrngCalls
    /\ \E c \in {Call("collect", <<ctx, bs>>)} :
          /\ ctx' = c
          /\ call' = [op |-> "collect", arg |-> bs, rnd |-> NaN, ctx0 |-> ctx,
                      st |-> "ok", v |-> NaN]
    /\ calls' = calls + 1
    /\ UNCHANGED <<key, buf>>

NextPrng ==
    \/ \E count \in GenerateCounts : GenerateSync(count, [s |-> 5, x |-> 9])
    \/ \E bs \in CollectInputs : Collect(bs)

SpecPrng == InitPrng /\ [][NextPrng]_vars

\* the hash state md after the characters bs[i], 0 <= i < Len(bs), with
\* (p + i) mod 32 = k, each absorbed on its own, in their order
FedTo(md, bs, p, k) ==
    LET body(h, i) == IF (p + i) % 32 = k THEN HashUpdate(h, <<bs[i + 1]>>) ELSE h
    IN For(body, md, 0, Len(bs) - 1)

\* r mod 2^k = 0 for 0 <= r < 2^31 and 0 <= k <= 31
Contributes(r, k) == IF k <= 30 THEN r % Pow2(k) = 0 ELSE r = 0

\* the last call was a generateSync that reseeded
Reseeded == call.op = "generateSync" /\ ctx.reseeds # call.ctx0.reseeds

\* the pools as the reseed of the last call found them: those of ctx0 with
\* the seed file distributed over them
PoolsAtReseed ==
    LET c0 == call.ctx0
        file == defaultSeedFile(Shl(32 - c0.pools[1].messageLength, 5), call.rnd)
    IN ArrayOf([k \in 1..32 |-> FedTo(c0.pools[k], file, c0.pool, k - 1)], 32)

\* the key bytes a reseed to the counter r makes of the key bytes before and
\* the digests of the contributing pools, the lowest index first
KeyBytesOf(keyBytes0, pools, r) ==
    LET body(md, k) ==
            IF Contributes(r, k)
            THEN HashUpdate(md, Unread(HashDigest(pools[k + 1])))
            ELSE md
    IN Unread(HashDigest(For(body, HashUpdate(HashCreate(PrngDigestLength), keyBytes0), 0, 31)))

\* C22: a call of generateSync reseeds once, whatever the number of blocks
\* it emits: the reseed counter is one more than before
C22_ReseedPerCall ==
    call.op = "generateSync" => ctx.reseeds = call.ctx0.reseeds + 1

\* C23: in the reseed that brings the counter to r, pool k gives its digest
\* to the new key if and only if r mod 2^k = 0; the pools that give are
\* restarted and the others keep what they have absorbed
C23_PoolSchedule ==
    Reseeded =>
        \E pools \in {PoolsAtReseed} :
            /\ \A k \in 0..31 :
                  ctx.pools[k + 1] = IF Contributes(ctx.reseeds, k)
                                     THEN HashStart(pools[k + 1])
                                     ELSE pools[k + 1]
            /\ ctx.keyBytes = KeyBytesOf(call.ctx0.keyBytes, pools, ctx.reseeds)

\* a reseed to an even counter: pool 1 gave and was restarted, pool 2 with
\* what it had absorbed did not
C23_Witness ==
    /\ Reseeded
    /\ ctx.reseeds = 2
    /\ ctx.pools[2].messageLength = 0
    /\ ctx.pools[3].messageLength > 32

\* C24: collect(bytes) feeds the character i of bytes to pool (p + i) mod 32,
\* p the pool index before the call, and the pool index stays in 0..31
C24_RoundRobin ==
    /\ ctx.pool \in 0..31
    /\ call.op = "collect" =>
          /\ \A k \in 0..31 :
                ctx.pools[k + 1] = FedTo(call.ctx0.pools[k + 1], call.arg, call.ctx0.pool, k)
          /\ ctx.pool = (call.ctx0.pool + Len(call.arg)) % 32

\* forty characters were collected from pool index 3 on: the index wrapped
C24_Witness ==
    /\ call.op = "collect"
    /\ call.ctx0.pool = 3
    /\ Len(call.arg) = 40
    /\ ctx.pool = 11

\* DB = lHash || PS || 0x01 || M of the last call, PS of k - mLen - 2 hLen - 2
\* zero octets
DataBlock ==
    LET psLen == MaxMessage - Len(call.data)
    IN RefHash(<<>>, call.md.width) \o ArrayOf([i \in 1..psLen |-> 0], psLen)
       \o <<1>> \o call.data

\* C25: for a plaintext of at most k - 2 hLen - 2 octets the encoded message
\* is 0x00 || maskedSeed || maskedDB of k octets, maskedDB = DB xor
\* MGF1(seed, k - hLen - 1) and maskedSeed = seed xor MGF1(maskedDB, hLen)
C25_EncodedShape ==
    (Encrypted /\ IsOctets(call.data) /\ Len(call.data) <= MaxMessage) =>
        \E k \in {TrueK(KeyPairOf(key))}, hLen \in {call.md.width} :
            /\ Len(call.em) = k
            /\ Len(call.seed) = hLen
            /\ call.em[1] = 0
            /\ SubSeq(call.em, hLen + 2, k)
               = RefXor(DataBlock, RefMgf1(call.seed, k - hLen - 1, hLen))
            /\ SubSeq(call.em, 2, hLen + 1)
               = RefXor(call.seed, RefMgf1(SubSeq(call.em, hLen + 2, k), hLen, hLen))

(***************************************************************************)
(* pkcs1.ts on its own: rsa_mgf1 of a seed, a mask length and a hash       *)
(* state.  call holds the arguments and the mask v.                        *)
(***************************************************************************)
\* the calls one behaviour makes
MaxMgfCalls == 1

\* the longest mask asked for
MaxMaskLen == 9

MgfSeeds == {<<>>, <<0>>, <<23>>, <<1, 2, 3>>, <<255, 254>>}

\* hash states: fresh ones, and ones that have absorbed 'AB'
MgfHashes ==
    SupportedHashes \cup {HashUpdate(md, <<65, 66>>) : md \in SupportedHashes}

InitMgf ==
    /\ key = [has |-> FALSE, n |-> nbi, e |-> nbi]
    /\ ctx = createPRNGContext
    /\ call = [op |-> "none", st |-> "ok"]
    /\ calls = 0
    /\ buf = ByteStringBuffer(<<>>)

\* rsa_mgf1(seed, maskLength, hash)
Mgf1(seed, maskLength, hash) ==
    /\ calls < MaxMgfCalls
    /\ \E r \in {Call("rsa_mgf1", <<seed, maskLength, hash>>)} :
          call' = [op |-> "rsa_mgf1", seed |-> seed, maskLength |-> maskLength,
                   hash |-> hash, st |-> r.st, v |-> r.v]
    /\ calls' = calls + 1
    /\ UNCHANGED <<key, ctx, buf>>

NextMgf ==
    \E seed \in MgfSeeds, maskLength \in 0..MaxMaskLen, hash \in MgfHashes :
        Mgf1(seed, maskLength, hash)

SpecMgf == InitMgf /\ [][NextMgf]_vars

\* C26: rsa_mgf1(seed, maskLen, H) is the first maskLen octets of
\* H(seed || I2OSP(0, 4)) || H(seed || I2OSP(1, 4)) || ..., every block
\* computed after a fresh start of H
C26_Mgf1 ==
    call.op = "rsa_mgf1" =>
        /\ call.st = "ok"
        /\ Len(call.v) = call.maskLength
        /\ call.v = RefMgf1(call.seed, call.maskLength, call.hash.width)

\* a mask of more than two blocks, cut within a block, made with a hash
\* state that had absorbed data before
C26_Witness ==
    /\ call.op = "rsa_mgf1"
    /\ call.hash.messageLength > 0
    /\ call.maskLength = 5
    /\ call.hash.width = 2
    /\ Len(call.v) = 5

\* the octets c, of the length of n, are em^e mod n for the key pair kp:
\* c < n, and c is em^e modulo each of the primes p and q of n
IsPowerOf(c, em, kp) ==
    /\ Len(c) = Len(kp.n)
    /\ RefLess(c, kp.n)
    /\ RefMod(c, kp.p) = RefPowMod(RefMod(em, kp.p), RefMod(kp.e, DM), kp.p)
    /\ RefMod(c, kp.q) = RefPowMod(RefMod(em, kp.q), RefMod(kp.e, DM), kp.q)

\* C27: the ciphertext rsaEncrypt returns for the encoded message m has
\* k octets, and their big-endian value is m^e mod n
C27_CiphertextOctets ==
    (call.op = "encrypt" /\ call.st = "ok" /\ IsOctets(call.em)) =>
        /\ Len(call.v) = TrueK(KeyPairOf(key))
        /\ IsPowerOf(call.v, call.em, KeyPairOf(key))

(***************************************************************************)
(* importPublicKey over SubjectPublicKeyInfo structures that are well      *)
(* formed and differ in the values of the modulus and the exponent.        *)
(***************************************************************************)
\* moduli: the odd one of KeyGood48, the even number next to it, and 0
KeyModuli == {KeyGood48.n, <<140, 235, 124, 61, 15, 112>>, <<0>>}

\* public exponents: 3, 65537, and 0, 1, 2 and 4
KeyExponents == {<<3>>, <<1, 0, 1>>, <<0>>, <<1>>, <<2>>, <<4>>}

KeyPemInputs ==
    {PemOf(DerOf(SpkiOf([n |-> n, e |-> e]))) : n \in KeyModuli, e \in KeyExponents}

\* the imports of these and of the inputs of Spec, which hold the malformed
\* ones
NextKeys == \E pem \in KeyPemInputs \cup PemInputs : Import(pem)

SpecKeys == Init /\ [][NextKeys]_vars

\* the clamped number x is odd
IsOdd(x) == x.t > 0 /\ Rd(x.d, 0) % 2 = 1

\* the clamped number x is at least 3
AtLeast3(x) == x.t > 1 \/ (x.t = 1 /\ Rd(x.d, 0) >= 3)

\* C28: a key that importPublicKey has produced holds an odd modulus n and
\* an odd exponent e >= 3; a SubjectPublicKeyInfo with other values makes
\* no key
C28_KeyInvariant ==
    key.has => IsOdd(key.n) /\ IsOdd(key.e) /\ AtLeast3(key.e)

(***************************************************************************)
(* encrypt with hash states that have absorbed data already, next to fresh *)
(* ones, under the keys of the tests.                                      *)
(***************************************************************************)
\* hash states after update('AB') and after update('\x01'), not restarted
UsedHashes == {HashUpdate(md, s) : md \in SupportedHashes, s \in {<<65, 66>>, <<1>>}}

HashEncryptInputs ==
    DataInputs \X (SupportedHashes \cup UsedHashes) \X {[s |-> 5, x |-> 9]}

NextHash ==
    \/ \E kp \in KeyPairs : Import(PemOf(DerOf(SpkiOf(kp))))
    \/ \E inp \in HashEncryptInputs : Encrypt(inp[1], inp[2], inp[3])

SpecHash == Init /\ [][NextHash]_vars

\* the last call is the first encrypt of the process, after one import: the
\* generator was as created
FirstEncrypt == call.op = "encrypt" /\ calls = 2 /\ ctx.reseeds <= 1

\* C29: encrypt with a hash state that has absorbed data restarts it before
\* the label: the result is that of encrypt with a fresh state of the same
\* hash, the generator and so the OAEP seed being the same
C29_HashRestarted ==
    (FirstEncrypt /\ call.md \in UsedHashes) =>
        \E r \in {Call("encrypt", <<key, call.data, HashCreate(call.md.width),
                                    createPRNGContext, call.rnd>>)} :
            /\ call.st = r.st
            /\ call.seed = r.seed
            /\ call.em = r.em
            /\ call.v = r.v

\* an encrypt of 'AB' with a state that had absorbed data has returned a
\* ciphertext
C29_Witness ==
    /\ FirstEncrypt
    /\ call.md \in UsedHashes
    /\ call.md.messageLength = 2
    /\ call.data = <<65, 66>>
    /\ call.st = "ok"
    /\ Len(call.v) > 0

====
